---- MODULE Spec2Model ----
(***************************************************************************)
(* Model of the MOEX bond lookup functions of gs_moex_bond_tools/script.js *)
(* (Google Apps Script).  The upstream HTTP API and the script cache are   *)
(* the environment: every response the code's conditions can tell apart   *)
(* is an input, the script time zone and the clock are part of the state.  *)
(*                                                                         *)
(* JavaScript values are records [t, n, s]: t is the type tag, n the       *)
(* number (numbers are kept in hundredths, so 101.5 is 10150; a Date is    *)
(* its instant in seconds since the epoch), s the text of a string as a    *)
(* sequence of pieces.  Tickers and numeric strings are kept character by  *)
(* character; message texts are one piece each (the source's messages are  *)
(* Russian, the pieces here are their ASCII renderings).                   *)
(***************************************************************************)
EXTENDS Integers, Sequences, FiniteSets, TLC

VARIABLES cache, now, tz, ticks, calls, call, populated,
          procs, cache0, api,
          variant, sheet, start, targetCells, driver

\* The concurrent invocations: each one's position, the cache they started
\* from and the upstream API state.
concVars == <<procs, cache0, api>>

\* The batch refresh driver and the sheet it works on.
driverVars == <<variant, sheet, start, targetCells, driver>>

vars == <<cache, now, tz, ticks, calls, call, populated, concVars, driverVars>>

---------------------------------------------------------------------------
(* JavaScript values *)

JNull == [t |-> "null", n |-> 0, s |-> <<>>]

JUndef == [t |-> "undefined", n |-> 0, s |-> <<>>]

JNaN == [t |-> "NaN", n |-> 0, s |-> <<>>]

JNum(x) == [t |-> "number", n |-> x, s |-> <<>>]

JStr(x) == [t |-> "string", n |-> 0, s |-> x]

\* The ISO text "YYYY-MM-DD" of day number d (days since the epoch).
IsoDate(d) == [t |-> "string", n |-> d, s |-> <<"YYYY-MM-DD">>]

JDate(x) == [t |-> "Date", n |-> x, s |-> <<>>]

InvalidDate == [t |-> "InvalidDate", n |-> 0, s |-> <<>>]

\* v === null || typeof v === 'undefined'; also the test of the ?? operator.
IsNullish(v) == v.t \in {"null", "undefined"}

\* !v
Falsy(v) ==
  \/ IsNullish(v)
  \/ v.t = "NaN"
  \/ v.t = "number" /\ v.n = 0
  \/ v.t = "string" /\ v.s = <<>>

Digits == <<"0", "1", "2", "3", "4", "5", "6", "7", "8", "9">>

IsDigit(c) == \E i \in 1..10 : Digits[i] = c

DigitVal(c) == (CHOOSE i \in 1..10 : Digits[i] = c) - 1

IsSpace(c) == c = " "

RECURSIVE SkipSpaces(_)
SkipSpaces(s) ==
  IF s # <<>> /\ IsSpace(Head(s)) THEN SkipSpaces(Tail(s)) ELSE s

\* The longest prefix of s made of digits.
RECURSIVE DigitPrefix(_)
DigitPrefix(s) ==
  IF s # <<>> /\ IsDigit(Head(s))
    THEN <<Head(s)>> \o DigitPrefix(Tail(s))
    ELSE <<>>

RECURSIVE DigitsValue(_, _)
DigitsValue(s, acc) ==
  IF s = <<>> THEN acc ELSE DigitsValue(Tail(s), 10 * acc + DigitVal(Head(s)))

\* The first two fraction digits as hundredths.
FractionValue(f) ==
  IF Len(f) = 0 THEN 0
  ELSE IF Len(f) = 1 THEN 10 * DigitVal(f[1])
  ELSE 10 * DigitVal(f[1]) + DigitVal(f[2])

\* parseFloat of a text: leading blanks skipped, an optional sign, digits,
\* an optional fraction; anything after is ignored; NaN when no digit.
ParseFloatText(s) ==
  LET a == SkipSpaces(s)
      neg == a # <<>> /\ Head(a) = "-"
      b == IF a # <<>> /\ Head(a) \in {"-", "+"} THEN Tail(a) ELSE a
      ip == DigitPrefix(b)
      r == SubSeq(b, Len(ip) + 1, Len(b))
      fp == IF r # <<>> /\ Head(r) = "." THEN DigitPrefix(Tail(r)) ELSE <<>>
      mag == 100 * DigitsValue(ip, 0) + FractionValue(fp)
  IN  IF ip = <<>> /\ fp = <<>> THEN JNaN
      ELSE JNum(IF neg THEN 0 - mag ELSE mag)

\* parseFloat(v)
ParseFloat(v) ==
  IF v.t = "number" THEN v
  ELSE IF v.t = "string" THEN ParseFloatText(v.s)
  ELSE JNaN

\* The text Date.prototype.toISOString gives for an instant: the UTC day
\* and the time of day, written here as day * 100000 + second of the day.
IsoDateTime(instant) ==
  [t |-> "string",
   n |-> (instant \div 86400) * 100000 + (instant % 86400),
   s |-> <<"YYYY-MM-DDTHH:mm:ss.sssZ">>]

\* new Date(v): a date-only ISO text is midnight UTC of that day, a full ISO
\* text with Z is that time of that UTC day, null is the epoch, any other
\* text (the "0000-00-00" sentinel, a message) is an Invalid Date.
NewDate(v) ==
  IF v.t = "string" /\ v.s = <<"YYYY-MM-DD">> THEN JDate(86400 * v.n)
  ELSE IF v.t = "string" /\ v.s = <<"YYYY-MM-DDTHH:mm:ss.sssZ">>
    THEN JDate(86400 * (v.n \div 100000) + (v.n % 100000))
  ELSE IF v.t = "null" THEN JDate(0)
  ELSE InvalidDate

\* today = new Date(); today.setHours(0, 0, 0, 0): local midnight of the
\* current local day, as an instant.  tz is the zone's offset in hours.
LocalDay(t, z) == (t + 3600 * z) \div 86400

TodayInstant(t, z) == 86400 * LocalDay(t, z) - 3600 * z

\* a >= b on Dates (valueOf comparison; false when either is invalid)
DateGeq(d, instant) == d.t = "Date" /\ d.n >= instant

---------------------------------------------------------------------------
(* Tabular blocks and responses *)

NoBlock ==
  [present |-> FALSE, hasColumns |-> FALSE, columns |-> <<>>,
   hasData |-> FALSE, data |-> <<>>]

Block(cols, rows) ==
  [present |-> TRUE, hasColumns |-> TRUE, columns |-> cols,
   hasData |-> TRUE, data |-> rows]

\* A block object without a "data" member.
BlockNoData(cols) ==
  [present |-> TRUE, hasColumns |-> TRUE, columns |-> cols,
   hasData |-> FALSE, data |-> <<>>]

\* A block object without a "columns" member.
BlockNoColumns(rows) ==
  [present |-> TRUE, hasColumns |-> FALSE, columns |-> <<>>,
   hasData |-> TRUE, data |-> rows]

\* columns.indexOf(name), zero-based, -1 when absent
IndexOf(columns, name) ==
  IF \E i \in 1..Len(columns) : columns[i] = name
    THEN (CHOOSE i \in 1..Len(columns) :
            /\ columns[i] = name
            /\ \A j \in 1..(i - 1) : columns[j] # name) - 1
    ELSE -1

\* row[idx]
At(row, idx) ==
  IF idx >= 0 /\ idx < Len(row) THEN row[idx + 1] ELSE JUndef

\* The outcome of UrlFetchApp.fetch and JSON.parse: fetch may throw
\* (threw), the response has a code, and its text may fail to parse.
Response(code, body) ==
  [threw |-> FALSE, code |-> code, parses |-> TRUE, body |-> body]

EmptyBody ==
  [marketdata |-> NoBlock, securities |-> NoBlock, coupons |-> NoBlock,
   amortizations |-> NoBlock, offers |-> NoBlock]

FetchThrows ==
  [threw |-> TRUE, code |-> 0, parses |-> FALSE, body |-> EmptyBody]

Unparsable(code) ==
  [threw |-> FALSE, code |-> code, parses |-> FALSE, body |-> EmptyBody]

NoResponse == [threw |-> FALSE, code |-> 0, parses |-> FALSE, body |-> EmptyBody]

SnapshotBody(md, sec) ==
  [marketdata |-> md, securities |-> sec, coupons |-> NoBlock,
   amortizations |-> NoBlock, offers |-> NoBlock]

BondizationBody(cp, am, of) ==
  [marketdata |-> NoBlock, securities |-> NoBlock, coupons |-> cp,
   amortizations |-> am, offers |-> of]

\* The text of a response code inside a message.
CodeText(code) ==
  IF code = 200 THEN "200"
  ELSE IF code = 404 THEN "404"
  ELSE IF code = 500 THEN "500"
  ELSE "code"

\* The two endpoints; a request is the endpoint and the ticker it encodes.
SnapshotRequest(ticker) == [endpoint |-> "securities", ticker |-> ticker]

BondizationRequest(ticker) == [endpoint |-> "bondization", ticker |-> ticker]

\* The note of fetchBondOptionDatesInternal's result object: the distinct
\* descriptions, one per line, and the description named as nearest.
NoNote == [has |-> FALSE, lines |-> <<>>, nearest |-> <<>>]

\* What a resolver did: the value it returned, the requests it issued in
\* order, the column values it read from a row, the dates it parsed.
Outcome(result, requests, reads, parsed) ==
  [result |-> result, requests |-> requests, reads |-> reads,
   parsed |-> parsed, note |-> NoNote]

---------------------------------------------------------------------------
(* Messages *)

MsgScriptError == JStr(<<"Script error">>)

MsgApiError(code) == JStr(<<"API error: ", CodeText(code)>>)

MsgIncomplete == JStr(<<"Ticker not found or the API returned incomplete data">>)

MsgPriceNotFound == JStr(<<"Price not found">>)

---------------------------------------------------------------------------
(* Price *)

\* The chain with its first two steps exchanged.
PriceChain_CloseFirst(md, sec) ==
  LET mdRow == md.data[1]
      secRow == sec.data[1]
      last == At(mdRow, IndexOf(md.columns, "LAST"))
      close == At(mdRow, IndexOf(md.columns, "CLOSEPRICE"))
      legal == At(secRow, IndexOf(sec.columns, "PREVLEGALCLOSEPRICE"))
      prev == At(secRow, IndexOf(sec.columns, "PREVPRICE"))
  IN  IF ~md.hasColumns THEN [threw |-> TRUE, price |-> JUndef, reads |-> <<>>]
      ELSE IF ~IsNullish(close)
        THEN [threw |-> FALSE, price |-> close, reads |-> <<"CLOSEPRICE">>]
      ELSE IF ~IsNullish(last)
        THEN [threw |-> FALSE, price |-> last,
              reads |-> <<"LAST", "CLOSEPRICE">>]
      ELSE IF ~sec.hasColumns
        THEN [threw |-> TRUE, price |-> JUndef,
              reads |-> <<"LAST", "CLOSEPRICE">>]
      ELSE IF ~IsNullish(legal)
        THEN [threw |-> FALSE, price |-> legal,
              reads |-> <<"LAST", "CLOSEPRICE", "PREVLEGALCLOSEPRICE">>]
      ELSE [threw |-> FALSE, price |-> prev,
            reads |-> <<"LAST", "CLOSEPRICE", "PREVLEGALCLOSEPRICE",
                        "PREVPRICE">>]

\* The ordered fallback of lines 133-137.  Each step reads one column of one
\* row; a step is evaluated only when every earlier one was null or
\* undefined, and reading through a missing column list throws.
PriceChain(md, sec) ==
  LET mdRow == md.data[1]
      secRow == sec.data[1]
      last == At(mdRow, IndexOf(md.columns, "LAST"))
      close == At(mdRow, IndexOf(md.columns, "CLOSEPRICE"))
      legal == At(secRow, IndexOf(sec.columns, "PREVLEGALCLOSEPRICE"))
      prev == At(secRow, IndexOf(sec.columns, "PREVPRICE"))
  IN  IF ~md.hasColumns THEN [threw |-> TRUE, price |-> JUndef, reads |-> <<>>]
      ELSE IF ~IsNullish(last)
        THEN [threw |-> FALSE, price |-> last, reads |-> <<"LAST">>]
      ELSE IF ~IsNullish(close)
        THEN [threw |-> FALSE, price |-> close,
              reads |-> <<"LAST", "CLOSEPRICE">>]
      ELSE IF ~sec.hasColumns
        THEN [threw |-> TRUE, price |-> JUndef,
              reads |-> <<"LAST", "CLOSEPRICE">>]
      ELSE IF ~IsNullish(legal)
        THEN [threw |-> FALSE, price |-> legal,
              reads |-> <<"LAST", "CLOSEPRICE", "PREVLEGALCLOSEPRICE">>]
      ELSE [threw |-> FALSE, price |-> prev,
            reads |-> <<"LAST", "CLOSEPRICE", "PREVLEGALCLOSEPRICE",
                        "PREVPRICE">>]

\* The check that forgets a securities block without rows.
IncompleteData_IgnoresEmptyRows(md, sec) ==
  \/ ~md.present
  \/ ~sec.present
  \/ ~md.hasData
  \/ ~sec.hasData
  \/ Len(md.data) = 0

\* The condition of lines 115-122: a block or its data is missing, or a
\* data list is empty.
IncompleteData(md, sec) ==
  \/ ~md.present
  \/ ~sec.present
  \/ ~md.hasData
  \/ ~sec.hasData
  \/ Len(md.data) = 0
  \/ Len(sec.data) = 0

fetchSinglePriceInternal(ticker, response) ==
  LET requests == <<SnapshotRequest(ticker)>>
      md == response.body.marketdata
      sec == response.body.securities
      chain == PriceChain(md, sec)
  IN  IF response.threw THEN Outcome(MsgScriptError, requests, <<>>, 0)
      ELSE IF response.code # 200
        THEN Outcome(MsgApiError(response.code), requests, <<>>, 0)
      ELSE IF ~response.parses THEN Outcome(MsgScriptError, requests, <<>>, 0)
      ELSE IF IncompleteData(md, sec)
        THEN Outcome(MsgIncomplete, requests, <<>>, 0)
      ELSE IF chain.threw
        THEN Outcome(MsgScriptError, requests, chain.reads, 0)
      ELSE IF IsNullish(chain.price)
        THEN Outcome(MsgPriceNotFound, requests, chain.reads, 0)
      ELSE Outcome(ParseFloat(chain.price), requests, chain.reads, 0)

---------------------------------------------------------------------------
(* Next coupon date, maturity date *)

MsgTickerNotFound == JStr(<<"Ticker not found">>)

MsgFieldAbsent(name) == JStr(<<"Field ", name, " is absent">>)

MsgNoUpcomingCoupons == JStr(<<"No upcoming coupons">>)

MsgMaturityUndefined == JStr(<<"Maturity date is not determined">>)

Sentinel == JStr(<<"0000-00-00">>)

\* The securities block fails the check of lines 200-205 (and its copies).
SecuritiesMissing(sec) ==
  \/ ~sec.present
  \/ ~sec.hasColumns
  \/ ~sec.hasData
  \/ Len(sec.data) = 0

\* The test that forgets the sentinel.
DateUnavailable_FalsyOnly(dateStr) == Falsy(dateStr)

\* The test of lines 221 and 451: no date text, or the sentinel.
DateUnavailable(dateStr) == Falsy(dateStr) \/ dateStr = Sentinel

\* The common body of fetchNextCouponInternal and fetchMaturityDateInternal:
\* one date column of the first securities row.
DateField(ticker, response, column, unavailable) ==
  LET requests == <<SnapshotRequest(ticker)>>
      sec == response.body.securities
      idx == IndexOf(sec.columns, column)
      dateStr == At(sec.data[1], idx)
  IN  IF response.threw THEN Outcome(MsgScriptError, requests, <<>>, 0)
      ELSE IF response.code # 200
        THEN Outcome(MsgApiError(response.code), requests, <<>>, 0)
      ELSE IF ~response.parses THEN Outcome(MsgScriptError, requests, <<>>, 0)
      ELSE IF SecuritiesMissing(sec)
        THEN Outcome(MsgTickerNotFound, requests, <<>>, 0)
      ELSE IF idx = -1
        THEN Outcome(MsgFieldAbsent(column), requests, <<>>, 0)
      ELSE IF DateUnavailable(dateStr)
        THEN Outcome(unavailable, requests, <<column>>, 0)
      ELSE Outcome(NewDate(dateStr), requests, <<column>>, 1)

fetchNextCouponInternal(ticker, response) ==
  DateField(ticker, response, "NEXTCOUPON", MsgNoUpcomingCoupons)

fetchMaturityDateInternal(ticker, response) ==
  DateField(ticker, response, "MATDATE", MsgMaturityUndefined)

---------------------------------------------------------------------------
(* Name *)

MsgNameNotFound == JStr(<<"Name not found">>)

\* The name taken from SHORTNAME first.
BondName_ShortFirst(sec) ==
  LET row == sec.data[1]
      secNameIndex == IndexOf(sec.columns, "SECNAME")
      shortNameIndex == IndexOf(sec.columns, "SHORTNAME")
      name1 == IF shortNameIndex # -1 THEN At(row, shortNameIndex) ELSE JNull
  IN  IF Falsy(name1) /\ secNameIndex # -1
        THEN At(row, secNameIndex)
        ELSE name1

\* The variable name after lines 287-297: SECNAME when present, SHORTNAME
\* when that left it falsy.
BondName(sec) ==
  LET row == sec.data[1]
      secNameIndex == IndexOf(sec.columns, "SECNAME")
      shortNameIndex == IndexOf(sec.columns, "SHORTNAME")
      name1 == IF secNameIndex # -1 THEN At(row, secNameIndex) ELSE JNull
  IN  IF Falsy(name1) /\ shortNameIndex # -1
        THEN At(row, shortNameIndex)
        ELSE name1

fetchBondNameInternal(ticker, response) ==
  LET requests == <<SnapshotRequest(ticker)>>
      sec == response.body.securities
      name2 == BondName(sec)
  IN  IF response.threw THEN Outcome(MsgScriptError, requests, <<>>, 0)
      ELSE IF response.code # 200
        THEN Outcome(MsgApiError(response.code), requests, <<>>, 0)
      ELSE IF ~response.parses THEN Outcome(MsgScriptError, requests, <<>>, 0)
      ELSE IF SecuritiesMissing(sec)
        THEN Outcome(MsgTickerNotFound, requests, <<>>, 0)
      ELSE IF Falsy(name2) THEN Outcome(MsgNameNotFound, requests, <<>>, 0)
      ELSE Outcome(name2, requests, <<>>, 0)

---------------------------------------------------------------------------
(* Coupon value *)

MsgApiErrorBondization(code) ==
  JStr(<<"API error (bondization): ", CodeText(code)>>)

MsgNoCouponData == JStr(<<"No coupon data (bondization)">>)

MsgNoCouponDate == JStr(<<"No coupon date in the data">>)

MsgCouponUndetermined == JStr(<<"Coupon is not determined">>)

\* 'Ошибка bondization: ' + e.message and 'Ошибка скрипта: ' + e.message
MsgBondizationError == JStr(<<"Bondization error: ", "e.message">>)

MsgScriptErrorWith == JStr(<<"Script error: ", "e.message">>)

\* seq.sort((a, b) => a.date - b.date) on records with valid dates: the
\* sort is stable, elements of equal date keep their order.
RECURSIVE InsertByDate(_, _)
InsertByDate(sorted, e) ==
  IF sorted = <<>> THEN <<e>>
  ELSE IF Head(sorted).date.n <= e.date.n
    THEN <<Head(sorted)>> \o InsertByDate(Tail(sorted), e)
    ELSE <<e>> \o sorted

RECURSIVE SortByDate(_)
SortByDate(seq) ==
  IF seq = <<>> THEN <<>>
  ELSE InsertByDate(SortByDate(SubSeq(seq, 1, Len(seq) - 1)), seq[Len(seq)])

\* The value of one coupon row taken from value first.
CouponRawValue_ValueFirst(r, valueIdx, valueRubIdx) ==
  IF valueIdx # -1 /\ At(r, valueIdx) # JNull THEN At(r, valueIdx)
  ELSE IF valueRubIdx # -1 /\ At(r, valueRubIdx) # JNull
    THEN At(r, valueRubIdx)
  ELSE JNull

\* The value of one coupon row (lines 492-497): value_rub when the column
\* exists and the cell is not null, else value likewise, else null.
CouponRawValue(r, valueIdx, valueRubIdx) ==
  IF valueRubIdx # -1 /\ At(r, valueRubIdx) # JNull THEN At(r, valueRubIdx)
  ELSE IF valueIdx # -1 /\ At(r, valueIdx) # JNull THEN At(r, valueIdx)
  ELSE JNull

CouponRecord(r, dateIdx, valueIdx, valueRubIdx) ==
  LET val == CouponRawValue(r, valueIdx, valueRubIdx)
  IN  [date |-> NewDate(At(r, dateIdx)),
       value |-> IF val # JNull THEN ParseFloat(val) ELSE JNull]

\* c.value !== null && !isNaN(c.value) && c.value !== 0
KnownValue(v) == v # JNull /\ v.t # "NaN" /\ ~(v.t = "number" /\ v.n = 0)

\* The loop of lines 512-534 from index i on, with lastKnownValue so far;
\* the value returned after it (lines 536-540).
RECURSIVE CouponScan(_, _, _, _)
CouponScan(coupons, i, lastKnownValue, today) ==
  IF i > Len(coupons)
    THEN IF lastKnownValue # JNull THEN lastKnownValue
         ELSE MsgCouponUndetermined
  ELSE IF DateGeq(coupons[i].date, today)
    THEN IF KnownValue(coupons[i].value) THEN coupons[i].value
         ELSE IF lastKnownValue # JNull THEN lastKnownValue
         ELSE MsgCouponUndetermined
  ELSE CouponScan(coupons, i + 1,
                  IF KnownValue(coupons[i].value) THEN coupons[i].value
                  ELSE lastKnownValue,
                  today)

\* The coupon records of a coupons block, sorted (lines 489-504).
SortedCoupons(cp) ==
  LET dateIdx == IndexOf(cp.columns, "coupondate")
      valueIdx == IndexOf(cp.columns, "value")
      valueRubIdx == IndexOf(cp.columns, "value_rub")
  IN  SortByDate([i \in 1..Len(cp.data) |->
                    CouponRecord(cp.data[i], dateIdx, valueIdx, valueRubIdx)])

fetchCouponFromBondization(ticker, response, t, z) ==
  LET requests == <<BondizationRequest(ticker)>>
      cp == response.body.coupons
  IN  IF response.threw THEN Outcome(MsgBondizationError, requests, <<>>, 0)
      ELSE IF response.code # 200
        THEN Outcome(MsgApiErrorBondization(response.code), requests, <<>>, 0)
      ELSE IF ~response.parses
        THEN Outcome(MsgBondizationError, requests, <<>>, 0)
      ELSE IF ~cp.present \/ ~cp.hasData \/ ~cp.hasColumns
        THEN Outcome(MsgNoCouponData, requests, <<>>, 0)
      ELSE IF IndexOf(cp.columns, "coupondate") = -1
        THEN Outcome(MsgNoCouponDate, requests, <<>>, 0)
      ELSE Outcome(CouponScan(SortedCoupons(cp), 1, JNull, TodayInstant(t, z)),
                   requests, <<>>, Len(cp.data))

\* Stage 1 that returns a zero COUPONVALUE.
CouponValueStage1_KeepsZero(sec) ==
  LET couponValueIndex == IndexOf(sec.columns, "COUPONVALUE")
      couponValue == At(sec.data[1], couponValueIndex)
  IN  IF couponValueIndex # -1 /\ ~IsNullish(couponValue)
        THEN ParseFloat(couponValue)
        ELSE JNull

\* Stage 1 of fetchCouponValueInternal (lines 362-376): the COUPONVALUE to
\* return, or null when the bondization feed has to be asked.
CouponValueStage1(sec) ==
  LET couponValueIndex == IndexOf(sec.columns, "COUPONVALUE")
      couponValue == At(sec.data[1], couponValueIndex)
      val == ParseFloat(couponValue)
  IN  IF couponValueIndex # -1 /\ ~IsNullish(couponValue)
           /\ ~(val.t = "number" /\ val.n = 0)
        THEN val
        ELSE JNull

\* The resolver asking the bondization feed whenever the snapshot gave no
\* value, a failed snapshot included.
fetchCouponValueInternal_AlwaysFallsBack(ticker, response, bondization, t, z) ==
  LET requests == <<SnapshotRequest(ticker)>>
      sec == response.body.securities
      stage1 == CouponValueStage1(sec)
      stage2 == fetchCouponFromBondization(ticker, bondization, t, z)
  IN  IF response.threw THEN Outcome(MsgScriptErrorWith, requests, <<>>, 0)
      ELSE IF response.code = 200 /\ response.parses
              /\ ~SecuritiesMissing(sec) /\ stage1 # JNull
        THEN Outcome(stage1, requests, <<"COUPONVALUE">>, 0)
      ELSE [stage2 EXCEPT !.requests = requests \o stage2.requests]

\* The bondization request is issued, and its response read, only when the
\* first stage falls through.
fetchCouponValueInternal(ticker, response, bondization, t, z) ==
  LET requests == <<SnapshotRequest(ticker)>>
      sec == response.body.securities
      stage1 == CouponValueStage1(sec)
      stage2 == fetchCouponFromBondization(ticker, bondization, t, z)
  IN  IF response.threw THEN Outcome(MsgScriptErrorWith, requests, <<>>, 0)
      ELSE IF response.code # 200
        THEN Outcome(MsgApiError(response.code), requests, <<>>, 0)
      ELSE IF ~response.parses
        THEN Outcome(MsgScriptErrorWith, requests, <<>>, 0)
      ELSE IF SecuritiesMissing(sec)
        THEN Outcome(MsgTickerNotFound, requests, <<>>, 0)
      ELSE IF stage1 # JNull
        THEN Outcome(stage1, requests, <<"COUPONVALUE">>, 0)
      ELSE [stage2 EXCEPT !.requests = requests \o stage2.requests]

---------------------------------------------------------------------------
(* Nearest offer or amortization date *)

MsgNoOffers == JStr(<<"No offers/amortizations">>)

TypeAmortization == JStr(<<"Amortization">>)

TypeOffer == JStr(<<"Offer">>)

\* `${type}: ${dStr}`
Description(type, dStr) == [type |-> type, dStr |-> dStr]

\* The events pushed by the forEach of lines 615-627 for rows i..Len(rows).
RECURSIVE AmortizationEvents(_, _, _, _)
AmortizationEvents(rows, i, dateIdx, today) ==
  IF i > Len(rows) THEN <<>>
  ELSE LET dStr == At(rows[i], dateIdx)
           d == NewDate(dStr)
           rest == AmortizationEvents(rows, i + 1, dateIdx, today)
       IN  IF ~Falsy(dStr) /\ DateGeq(d, today)
             THEN <<[date |-> d, type |-> TypeAmortization,
                     description |-> Description(TypeAmortization, dStr)]>>
                  \o rest
             ELSE rest

\* The events pushed by the forEach of lines 641-662 for rows i..Len(rows).
RECURSIVE OfferEvents(_, _, _, _, _)
OfferEvents(rows, i, dateIdx, typeIdx, today) ==
  IF i > Len(rows) THEN <<>>
  ELSE LET dStr == At(rows[i], dateIdx)
           d == NewDate(dStr)
           type == IF typeIdx # -1 /\ ~Falsy(At(rows[i], typeIdx))
                     THEN At(rows[i], typeIdx)
                     ELSE TypeOffer
           rest == OfferEvents(rows, i + 1, dateIdx, typeIdx, today)
       IN  IF ~Falsy(dStr) /\ DateGeq(d, today)
             THEN <<[date |-> d, type |-> type,
                     description |-> Description(type, dStr)]>> \o rest
             ELSE rest

\* The events array before sorting (lines 604-664): amortizations first.
CollectEvents(am, of, today) ==
  LET amDateIdx == IndexOf(am.columns, "amortdate")
      ofDateIdx == IndexOf(of.columns, "offerdate")
      ofTypeIdx == IndexOf(of.columns, "offertype")
      fromAm == IF am.present /\ am.hasColumns /\ am.hasData /\ amDateIdx # -1
                  THEN AmortizationEvents(am.data, 1, amDateIdx, today)
                  ELSE <<>>
      fromOf == IF of.present /\ of.hasColumns /\ of.hasData /\ ofDateIdx # -1
                  THEN OfferEvents(of.data, 1, ofDateIdx, ofTypeIdx, today)
                  ELSE <<>>
  IN  fromAm \o fromOf

\* [...new Set(seq)]: each element once, at its first position.
RECURSIVE Unique(_)
Unique(seq) ==
  IF seq = <<>> THEN <<>>
  ELSE LET init == Unique(SubSeq(seq, 1, Len(seq) - 1))
           e == seq[Len(seq)]
       IN  IF \E i \in 1..Len(init) : init[i] = e THEN init
           ELSE Append(init, e)

\* The note text (lines 685-686): the distinct descriptions joined by line
\* breaks, an empty line, and the line naming the nearest event.
NoteText(events, nearest) ==
  [has |-> TRUE,
   lines |-> Unique([i \in 1..Len(events) |-> events[i].description]),
   nearest |-> <<nearest.description>>]

fetchBondOptionDatesInternal(ticker, response, t, z) ==
  LET requests == <<BondizationRequest(ticker)>>
      events == SortByDate(CollectEvents(response.body.amortizations,
                                         response.body.offers,
                                         TodayInstant(t, z)))
      nearest == events[1]
  IN  IF response.threw THEN Outcome(MsgScriptErrorWith, requests, <<>>, 0)
      ELSE IF response.code # 200
        THEN Outcome(MsgApiError(response.code), requests, <<>>, 0)
      ELSE IF ~response.parses
        THEN Outcome(MsgScriptErrorWith, requests, <<>>, 0)
      ELSE IF Len(events) = 0 THEN Outcome(MsgNoOffers, requests, <<>>, 0)
      ELSE [Outcome(nearest.date, requests, <<>>, 0)
              EXCEPT !.note = NoteText(events, nearest)]

---------------------------------------------------------------------------
(* The script cache and the exposed functions *)

\* s.trim() on a text kept character by character
RECURSIVE TrimLeft(_)
TrimLeft(s) == IF s # <<>> /\ IsSpace(Head(s)) THEN TrimLeft(Tail(s)) ELSE s

RECURSIVE TrimRight(_)
TrimRight(s) ==
  IF s # <<>> /\ IsSpace(s[Len(s)])
    THEN TrimRight(SubSeq(s, 1, Len(s) - 1))
    ELSE s

Trim(s) == TrimRight(TrimLeft(s))

\* !ticker || ticker.trim() === ''
BlankTicker(ticker) == ticker = <<>> \/ Trim(ticker) = <<>>

\* The cache keys of the five cached facts.
PriceKey(ticker) == ticker

CouponKey(ticker) == ticker \o <<"_", "c", "o", "u", "p", "o", "n">>

NameKey(ticker) == ticker \o <<"_", "n", "a", "m", "e">>

CouponValueKey(ticker) ==
  ticker \o <<"_", "c", "o", "u", "p", "o", "n", "_", "v", "a", "l", "u", "e",
              "_", "v", "3">>

MaturityKey(ticker) ==
  ticker \o <<"_", "m", "a", "t", "u", "r", "i", "t", "y">>

\* The expiration times given to cache.put, in seconds.
PriceTtl == 300

CouponTtl == 21600

NameTtl == 86400

CouponValueTtl == 21600

MaturityTtl == 86400

\* A cache entry: the text put, when it was put and for how long.
NoEntry == [present |-> FALSE, value |-> JUndef, putAt |-> 0, ttl |-> 0]

\* A JSON text: the literal null, a number, or a quoted text.
JsonText(kind, v) == [t |-> kind, n |-> v.n, s |-> v.s]

\* JSON.stringify(v): null, NaN and an Invalid Date are written as null, a
\* Date as its quoted ISO text, a number or a text as itself.
JsonStringify(v) ==
  IF v.t \in {"null", "NaN", "InvalidDate"} THEN JsonText("json:null", JNull)
  ELSE IF v.t = "Date" THEN JsonText("json:string", IsoDateTime(v.n))
  ELSE IF v.t = "number" THEN JsonText("json:number", v)
  ELSE JsonText("json:string", v)

\* An exception leaving the function: what the caller gets instead of a
\* value.
Thrown(name) == [t |-> "throw", n |-> 0, s |-> <<name>>]

\* JSON.parse(text): the value of a text written by JSON.stringify; a text
\* put as it is (a name, a message) is no JSON text and makes it throw.
JsonParse(text) ==
  IF text.t = "json:null" THEN JNull
  ELSE IF text.t = "json:number" THEN JNum(text.n)
  ELSE IF text.t = "json:string"
    THEN [t |-> "string", n |-> text.n, s |-> text.s]
  ELSE Thrown("SyntaxError")

\* cache.get(key): the text put under key, null when there is none or its
\* expiration time has passed.
CacheGet(c, key, t) ==
  IF key \in DOMAIN c /\ c[key].present /\ t < c[key].putAt + c[key].ttl
    THEN c[key]
    ELSE NoEntry

\* cache.put(key, value, ttl)
CachePut(c, key, value, ttl, t) ==
  [c EXCEPT ![key] = [present |-> TRUE, value |-> value, putAt |-> t,
                      ttl |-> ttl]]

\* What an exposed function did: the value returned to the cell, the
\* requests issued, the note it tried to set, and the cache it left.
Reply(result, requests, note, c) ==
  [result |-> result, requests |-> requests, note |-> note, cache |-> c]

GET_MOEX_PRICE(ticker, response, c, t) ==
  LET cached == CacheGet(c, PriceKey(ticker), t)
      o == fetchSinglePriceInternal(ticker, response)
  IN  IF BlankTicker(ticker) THEN Reply(JNull, <<>>, NoNote, c)
      ELSE IF cached.present
        THEN Reply(JsonParse(cached.value), <<>>, NoNote, c)
      ELSE Reply(o.result, o.requests, NoNote,
                 CachePut(c, PriceKey(ticker), JsonStringify(o.result),
                          PriceTtl, t))

MsgNoData == JStr(<<"No data">>)

\* The return on a hit that forgets new Date.
CachedDate_Text(cachedValue) ==
  IF cachedValue.t = "throw" THEN cachedValue
  ELSE IF ~Falsy(cachedValue) THEN cachedValue
  ELSE MsgNoData

\* The return on a hit of GET_NEXT_COUPON and GET_MATURITY_DATE, lines
\* 166-167: cachedValue = JSON.parse(cached), which may throw, then
\* cachedValue ? new Date(cachedValue) : 'Нет данных'
CachedDate(cachedValue) ==
  IF cachedValue.t = "throw" THEN cachedValue
  ELSE IF ~Falsy(cachedValue) THEN NewDate(cachedValue)
  ELSE MsgNoData

GET_NEXT_COUPON(ticker, response, c, t) ==
  LET cached == CacheGet(c, CouponKey(ticker), t)
      o == fetchNextCouponInternal(ticker, response)
  IN  IF BlankTicker(ticker) THEN Reply(JNull, <<>>, NoNote, c)
      ELSE IF cached.present
        THEN Reply(CachedDate(JsonParse(cached.value)), <<>>, NoNote, c)
      ELSE Reply(o.result, o.requests, NoNote,
                 CachePut(c, CouponKey(ticker), JsonStringify(o.result),
                          CouponTtl, t))

GET_MOEX_NAME(ticker, response, c, t) ==
  LET cached == CacheGet(c, NameKey(ticker), t)
      o == fetchBondNameInternal(ticker, response)
  IN  IF BlankTicker(ticker) THEN Reply(JNull, <<>>, NoNote, c)
      ELSE IF cached.present THEN Reply(cached.value, <<>>, NoNote, c)
      ELSE Reply(o.result, o.requests, NoNote,
                 CachePut(c, NameKey(ticker), o.result, NameTtl, t))

GET_COUPON_VALUE(ticker, response, bondization, c, t, z) ==
  LET cached == CacheGet(c, CouponValueKey(ticker), t)
      o == fetchCouponValueInternal(ticker, response, bondization, t, z)
  IN  IF BlankTicker(ticker) THEN Reply(JNull, <<>>, NoNote, c)
      ELSE IF cached.present
        THEN Reply(JsonParse(cached.value), <<>>, NoNote, c)
      ELSE Reply(o.result, o.requests, NoNote,
                 CachePut(c, CouponValueKey(ticker),
                          JsonStringify(o.result), CouponValueTtl, t))

GET_MATURITY_DATE(ticker, response, c, t) ==
  LET cached == CacheGet(c, MaturityKey(ticker), t)
      o == fetchMaturityDateInternal(ticker, response)
  IN  IF BlankTicker(ticker) THEN Reply(JNull, <<>>, NoNote, c)
      ELSE IF cached.present
        THEN Reply(CachedDate(JsonParse(cached.value)), <<>>, NoNote, c)
      ELSE Reply(o.result, o.requests, NoNote,
                 CachePut(c, MaturityKey(ticker),
                          JsonStringify(o.result), MaturityTtl, t))

MsgNeedTicker == JStr(<<"Give a ticker">>)

\* GET_NEAREST_OPTION_DATE keeping its result in the cache like the others.
GET_NEAREST_OPTION_DATE_Cached(ticker, response, c, t, z) ==
  LET cached == CacheGet(c, PriceKey(ticker), t)
      o == fetchBondOptionDatesInternal(ticker, response, t, z)
  IN  IF ticker = <<>> THEN Reply(MsgNeedTicker, <<>>, NoNote, c)
      ELSE IF cached.present
        THEN Reply(CachedDate(JsonParse(cached.value)), <<>>, NoNote, c)
      ELSE Reply(o.result, o.requests, o.note,
                 CachePut(c, PriceKey(ticker), JsonStringify(o.result),
                          PriceTtl, t))

\* The note goes to range.setNote, whose failure is ignored.
GET_NEAREST_OPTION_DATE(ticker, response, c, t, z) ==
  LET o == fetchBondOptionDatesInternal(ticker, response, t, z)
  IN  IF ticker = <<>> THEN Reply(MsgNeedTicker, <<>>, NoNote, c)
      ELSE Reply(o.result, o.requests, o.note, c)

---------------------------------------------------------------------------
(* Inputs *)

\* The script time zones considered: west of UTC, UTC, east of UTC (hours).
TzOffsets == {-5, 0, 3}

\* The instants a behaviour may start at: early and late in a UTC day.
StartTimes == {10 * 86400 + 3600, 10 * 86400 + 82800}

\* The tickers a resolver is handed.
ResolverTickers == {<<"A">>, <<" ", "B">>}

Codes == {200, 404}

\* All rows over a column list: one value per column.
RowsOver(cols, values) == [1..Len(cols) -> values]

\* The blocks over the given column lists and cell values: no block, a
\* block lacking data or columns, no row, and one row of every content.
BlocksOver(colLists, values) ==
  {NoBlock, BlockNoData(<<>>), Block(<<>>, <<>>)}
    \cup {BlockNoColumns(<<r>>) : r \in RowsOver(<<"c">>, values)}
    \cup UNION {{Block(cols, <<r>>) : r \in RowsOver(cols, values)} :
                 cols \in colLists}

MarketdataValues ==
  {JNull, JNum(10150), JStr(<<"1", "0", "1", ".", "5">>),
   JStr(<<"n", "/", "a">>)}

SecuritiesPriceValues == {JNull, JNum(9900), JNum(10000)}

MarketdataBlocks ==
  BlocksOver({<<"LAST">>, <<"CLOSEPRICE">>, <<"LAST", "CLOSEPRICE">>,
              <<"CLOSEPRICE", "LAST">>, <<"SECID">>}, MarketdataValues)

PriceSecuritiesBlocks ==
  BlocksOver({<<"PREVPRICE">>, <<"PREVLEGALCLOSEPRICE">>,
              <<"PREVPRICE", "PREVLEGALCLOSEPRICE">>,
              <<"PREVLEGALCLOSEPRICE", "PREVPRICE">>, <<"SECID">>},
             SecuritiesPriceValues)

\* The responses that are not a parsed 200 body.
FailedResponses ==
  {FetchThrows} \cup {Unparsable(200)} \cup
  {Response(c, EmptyBody) : c \in Codes \ {200}}

PriceResponses ==
  FailedResponses \cup
  {Response(200, SnapshotBody(md, sec)) :
     md \in MarketdataBlocks, sec \in PriceSecuritiesBlocks}

DateValues(day) ==
  {JNull, JStr(<<>>), Sentinel, IsoDate(day + 1), JStr(<<"soon">>)}

\* Securities blocks for a resolver that reads one column.
OneColumnBlocks(column, values) ==
  BlocksOver({<<column>>, <<"SECID", column>>, <<column, "SECID">>,
              <<"SECID">>}, values)

NameValues == {JNull, JStr(<<>>), JStr(<<"OFZ 26227">>), JStr(<<"OFZ">>)}

NameBlocks ==
  BlocksOver({<<"SECNAME">>, <<"SHORTNAME">>, <<"SECNAME", "SHORTNAME">>,
              <<"SHORTNAME", "SECNAME">>, <<"SECID">>}, NameValues)

SnapshotResponses(blocks) ==
  FailedResponses \cup
  {Response(200, SnapshotBody(NoBlock, sec)) : sec \in blocks}

CouponValueValues ==
  {JNull, JNum(0), JNum(4500), JStr(<<"0", ".", "0", "0">>),
   JStr(<<"4", "5">>), JStr(<<"-">>)}

\* The most rows a bondization block carries.
MaxCoupons == 3

MaxAmortizations == 1

MaxOffers == 2

\* All sequences over a set with at most n elements.
SeqsUpTo(set, n) == UNION {[1..k -> set] : k \in 0..n}

CouponAmounts == {JNull, JNum(0), JNum(5000), JNum(6000)}

\* Coupon dates around the local day; null stands for a missing date.
CouponDates(day) == {IsoDate(day - 1), IsoDate(day), IsoDate(day + 1)}

\* Coupons blocks with the columns coupondate and value.
CouponBlocks(day) ==
  {NoBlock, BlockNoData(<<"coupondate", "value">>),
   BlockNoColumns(<<>>), Block(<<"value">>, <<>>)}
    \cup {Block(<<"coupondate", "value">>, rows) :
            rows \in SeqsUpTo({<<d, v>> : d \in CouponDates(day),
                                          v \in CouponAmounts}, MaxCoupons)}

\* Coupons blocks that also carry value_rub, one row.
CouponRubBlocks(day) ==
  {Block(cols, <<r>>) :
     cols \in {<<"coupondate", "value", "value_rub">>,
               <<"coupondate", "value_rub">>},
     r \in {<<d, v, w>> : d \in {JNull, IsoDate(day)},
                          v \in {JNull, JNum(5000)},
                          w \in {JNull, JNum(0), JNum(6000)}}}

FailedBondization ==
  {FetchThrows} \cup {Unparsable(200)} \cup
  {Response(c, EmptyBody) : c \in Codes \ {200}}

CouponResponses(day) ==
  FailedBondization \cup
  {Response(200, BondizationBody(cp, NoBlock, NoBlock)) :
     cp \in CouponBlocks(day) \cup CouponRubBlocks(day)}

AmortizationDates(day) ==
  {JNull, Sentinel, IsoDate(day - 1), IsoDate(day), IsoDate(day + 5)}

OfferDates(day) ==
  {IsoDate(day - 1), IsoDate(day), IsoDate(day + 5), IsoDate(day + 10)}

OfferTypes == {JNull, JStr(<<"Put">>)}

AmortizationBlocks(day) ==
  {NoBlock, BlockNoData(<<"amortdate">>), BlockNoColumns(<<>>)}
    \cup {Block(<<"value">>, <<<<d>>>>) : d \in {IsoDate(day)}}
    \cup {Block(<<"amortdate">>, rows) :
            rows \in SeqsUpTo({<<d>> : d \in AmortizationDates(day)},
                              MaxAmortizations)}

OfferBlocks(day) ==
  {NoBlock, BlockNoData(<<"offerdate">>), BlockNoColumns(<<>>)}
    \cup {Block(<<"offerdate">>, <<<<d>>>>) : d \in OfferDates(day)}
    \cup {Block(<<"offertype", "offerdate">>, <<<<JStr(<<"Put">>), d>>>>) :
            d \in OfferDates(day)}
    \cup {Block(<<"offerdate", "offertype">>, rows) :
            rows \in SeqsUpTo({<<JNull, JNull>>} \cup
                              {<<d, ty>> : d \in OfferDates(day),
                                           ty \in OfferTypes}, MaxOffers)}

EventResponses(day) ==
  FailedBondization \cup
  {Response(200, BondizationBody(NoBlock, am, of)) :
     am \in AmortizationBlocks(day), of \in OfferBlocks(day)}

---------------------------------------------------------------------------
(* State *)

\* The tickers the exposed functions are called with: blank ones, a bond,
\* and a text that is the bond's ticker followed by "_name".
LookupTickers == {<<>>, <<" ">>, <<"A">>, <<"A", "_", "n", "a", "m", "e">>}

CacheKeys ==
  UNION {{PriceKey(t), CouponKey(t), NameKey(t), CouponValueKey(t),
          MaturityKey(t)} : t \in LookupTickers}

\* A snapshot of a bond with every column the resolvers read.
BondSnapshot(coupon, couponValue, maturity) ==
  Response(200,
    SnapshotBody(
      Block(<<"SECID", "LAST">>, <<<<JStr(<<"A">>), JNum(10150)>>>>),
      Block(<<"SECID", "SECNAME", "NEXTCOUPON", "COUPONVALUE", "MATDATE">>,
            <<<<JStr(<<"A">>), JStr(<<"OFZ 26227">>), coupon, couponValue,
                maturity>>>>)))

LookupSnapshots(day) ==
  {BondSnapshot(IsoDate(day + 1), JNum(4500), IsoDate(day + 10)),
   BondSnapshot(Sentinel, JNum(0), Sentinel)}

LookupBondizations(day) ==
  {Response(200,
     BondizationBody(
       Block(<<"coupondate", "value">>, <<<<IsoDate(day + 1), JNum(6000)>>>>),
       Block(<<"amortdate">>, <<<<IsoDate(day + 5)>>>>),
       Block(<<"offerdate">>, <<<<IsoDate(day + 10)>>>>))),
   Response(404, EmptyBody)}

\* The steps the clock is advanced by, in seconds, and how many times.
TickSteps == {300, 21600, 86400}

MaxTicks == 1

\* How many invocations of exposed functions a behaviour holds.
MaxCalls == 2

\* The invocation in progress or just finished: the function, its ticker,
\* the responses of the two endpoints, what it did, and the cache entry of
\* its key as it was before.
Invocation(fn, ticker, response, response2, out, before) ==
  [fn |-> fn, ticker |-> ticker, response |-> response,
   response2 |-> response2, out |-> out, before |-> before]

NoCall ==
  Invocation("none", <<>>, NoResponse, NoResponse,
             Outcome(JUndef, <<>>, <<>>, 0), NoEntry)

\* Nothing was put under a key yet.
NotPopulated == [fn |-> "none", result |-> JUndef]

\* No concurrent invocation is under way.
IdleConc ==
  /\ procs = <<>>
  /\ cache0 = <<>>
  /\ api = <<>>

\* The batch refresh driver is not running.
IdleDriver ==
  /\ variant = "none"
  /\ sheet = <<>>
  /\ start = <<>>
  /\ targetCells = <<>>
  /\ driver = [pc |-> "idle", i |-> 0, originalFormula |-> <<>>]

Init ==
  /\ cache = [k \in CacheKeys |-> NoEntry]
  /\ now \in StartTimes
  /\ tz \in TzOffsets
  /\ ticks = 0
  /\ calls = 0
  /\ call = NoCall
  /\ populated = [k \in CacheKeys |-> NotPopulated]
  /\ IdleConc
  /\ IdleDriver

\* One invocation of fetchSinglePriceInternal against one response.
Call_fetchSinglePriceInternal ==
  /\ call.fn = "none"
  /\ \E ticker \in ResolverTickers, response \in PriceResponses :
       call' = Invocation("fetchSinglePriceInternal", ticker, response,
                         NoResponse,
                         fetchSinglePriceInternal(ticker, response),
                         NoEntry)
  /\ UNCHANGED <<cache, now, tz, ticks, calls, populated, concVars, driverVars>>

Call_fetchNextCouponInternal ==
  /\ call.fn = "none"
  /\ \E ticker \in ResolverTickers,
        response \in SnapshotResponses(
                       OneColumnBlocks("NEXTCOUPON",
                                       DateValues(LocalDay(now, tz)))) :
       call' = Invocation("fetchNextCouponInternal", ticker, response,
                         NoResponse,
                         fetchNextCouponInternal(ticker, response),
                         NoEntry)
  /\ UNCHANGED <<cache, now, tz, ticks, calls, populated, concVars, driverVars>>

Call_fetchMaturityDateInternal ==
  /\ call.fn = "none"
  /\ \E ticker \in ResolverTickers,
        response \in SnapshotResponses(
                       OneColumnBlocks("MATDATE",
                                       DateValues(LocalDay(now, tz)))) :
       call' = Invocation("fetchMaturityDateInternal", ticker, response,
                         NoResponse,
                         fetchMaturityDateInternal(ticker, response),
                         NoEntry)
  /\ UNCHANGED <<cache, now, tz, ticks, calls, populated, concVars, driverVars>>

Call_fetchBondNameInternal ==
  /\ call.fn = "none"
  /\ \E ticker \in ResolverTickers, response \in SnapshotResponses(NameBlocks) :
       call' = Invocation("fetchBondNameInternal", ticker, response,
                         NoResponse,
                         fetchBondNameInternal(ticker, response),
                         NoEntry)
  /\ UNCHANGED <<cache, now, tz, ticks, calls, populated, concVars, driverVars>>

\* The bondization response is the one the feed would give; the resolver
\* asks for it only in its second stage.
Call_fetchCouponValueInternal ==
  /\ call.fn = "none"
  /\ \E ticker \in ResolverTickers,
        response \in SnapshotResponses(
                       OneColumnBlocks("COUPONVALUE", CouponValueValues)),
        bondization \in
          {Response(200, BondizationBody(cp, NoBlock, NoBlock)) :
             cp \in CouponRubBlocks(LocalDay(now, tz))}
            \cup FailedBondization :
       call' = Invocation("fetchCouponValueInternal", ticker, response,
                         bondization,
                         fetchCouponValueInternal(ticker, response, bondization, now, tz),
                         NoEntry)
  /\ UNCHANGED <<cache, now, tz, ticks, calls, populated, concVars, driverVars>>

Call_fetchCouponFromBondization ==
  /\ call.fn = "none"
  /\ \E ticker \in ResolverTickers,
        response \in CouponResponses(LocalDay(now, tz)) :
       call' = Invocation("fetchCouponFromBondization", ticker, response,
                         NoResponse,
                         fetchCouponFromBondization(ticker, response, now, tz),
                         NoEntry)
  /\ UNCHANGED <<cache, now, tz, ticks, calls, populated, concVars, driverVars>>

Call_fetchBondOptionDatesInternal ==
  /\ call.fn = "none"
  /\ \E ticker \in ResolverTickers,
        response \in EventResponses(LocalDay(now, tz)) :
       call' = Invocation("fetchBondOptionDatesInternal", ticker, response,
                         NoResponse,
                         fetchBondOptionDatesInternal(ticker, response, now, tz),
                         NoEntry)
  /\ UNCHANGED <<cache, now, tz, ticks, calls, populated, concVars, driverVars>>

\* The caller takes the value; the next invocation may start.
Return ==
  /\ call.fn # "none"
  /\ call' = NoCall
  /\ UNCHANGED <<cache, now, tz, ticks, calls, populated, concVars, driverVars>>

Next ==
  \/ Call_fetchSinglePriceInternal
  \/ Call_fetchNextCouponInternal
  \/ Call_fetchMaturityDateInternal
  \/ Call_fetchBondNameInternal
  \/ Call_fetchCouponValueInternal
  \/ Call_fetchCouponFromBondization
  \/ Call_fetchBondOptionDatesInternal
  \/ Return

Spec == Init /\ [][Next]_vars

---------------------------------------------------------------------------
(* The exposed functions over the cache and the clock *)

\* The exposed functions are followed from a morning in the Moscow zone.
InitLookup ==
  /\ cache = [k \in CacheKeys |-> NoEntry]
  /\ now = 10 * 86400 + 3600
  /\ tz = 3
  /\ ticks = 0
  /\ calls = 0
  /\ call = NoCall
  /\ populated = [k \in CacheKeys |-> NotPopulated]
  /\ IdleConc
  /\ IdleDriver

\* The function that missed and the outcome it returned are remembered for
\* the key it populated.
Populate(fn, key, reply) ==
  IF reply.requests # <<>>
    THEN [populated EXCEPT ![key] = [fn |-> fn, result |-> reply.result]]
    ELSE populated

\* The invocation of an exposed function as the state records it, with the
\* cache entry under its key as it was before; a response exists only for a
\* request that was issued.
Lookup(fn, ticker, response, response2, key, reply) ==
  Invocation(fn, ticker,
             IF Len(reply.requests) >= 1 THEN response ELSE NoResponse,
             IF Len(reply.requests) >= 2 THEN response2 ELSE NoResponse,
             [Outcome(reply.result, reply.requests, <<>>, 0)
                EXCEPT !.note = reply.note],
             cache[key])

Call_GET_MOEX_PRICE ==
  /\ call.fn = "none"
  /\ calls < MaxCalls
  /\ \E ticker \in LookupTickers,
        response \in LookupSnapshots(LocalDay(now, tz)) :
       LET reply == GET_MOEX_PRICE(ticker, response, cache, now)
       IN  /\ call' = Lookup("GET_MOEX_PRICE", ticker, response, NoResponse,
                             PriceKey(ticker), reply)
           /\ cache' = reply.cache
           /\ populated' = Populate("GET_MOEX_PRICE", PriceKey(ticker), reply)
  /\ calls' = calls + 1
  /\ UNCHANGED <<now, tz, ticks, concVars, driverVars>>

Call_GET_NEXT_COUPON ==
  /\ call.fn = "none"
  /\ calls < MaxCalls
  /\ \E ticker \in LookupTickers,
        response \in LookupSnapshots(LocalDay(now, tz)) :
       LET reply == GET_NEXT_COUPON(ticker, response, cache, now)
       IN  /\ call' = Lookup("GET_NEXT_COUPON", ticker, response, NoResponse,
                             CouponKey(ticker), reply)
           /\ cache' = reply.cache
           /\ populated' = Populate("GET_NEXT_COUPON", CouponKey(ticker), reply)
  /\ calls' = calls + 1
  /\ UNCHANGED <<now, tz, ticks, concVars, driverVars>>

Call_GET_MOEX_NAME ==
  /\ call.fn = "none"
  /\ calls < MaxCalls
  /\ \E ticker \in LookupTickers,
        response \in LookupSnapshots(LocalDay(now, tz)) :
       LET reply == GET_MOEX_NAME(ticker, response, cache, now)
       IN  /\ call' = Lookup("GET_MOEX_NAME", ticker, response, NoResponse,
                             NameKey(ticker), reply)
           /\ cache' = reply.cache
           /\ populated' = Populate("GET_MOEX_NAME", NameKey(ticker), reply)
  /\ calls' = calls + 1
  /\ UNCHANGED <<now, tz, ticks, concVars, driverVars>>

Call_GET_COUPON_VALUE ==
  /\ call.fn = "none"
  /\ calls < MaxCalls
  /\ \E ticker \in LookupTickers,
        response \in LookupSnapshots(LocalDay(now, tz)),
        bondization \in LookupBondizations(LocalDay(now, tz)) :
       LET reply == GET_COUPON_VALUE(ticker, response, bondization, cache,
                                     now, tz)
       IN  /\ call' = Lookup("GET_COUPON_VALUE", ticker, response,
                             bondization, CouponValueKey(ticker), reply)
           /\ cache' = reply.cache
           /\ populated' = Populate("GET_COUPON_VALUE", CouponValueKey(ticker), reply)
  /\ calls' = calls + 1
  /\ UNCHANGED <<now, tz, ticks, concVars, driverVars>>

Call_GET_MATURITY_DATE ==
  /\ call.fn = "none"
  /\ calls < MaxCalls
  /\ \E ticker \in LookupTickers,
        response \in LookupSnapshots(LocalDay(now, tz)) :
       LET reply == GET_MATURITY_DATE(ticker, response, cache, now)
       IN  /\ call' = Lookup("GET_MATURITY_DATE", ticker, response,
                             NoResponse, MaturityKey(ticker), reply)
           /\ cache' = reply.cache
           /\ populated' = Populate("GET_MATURITY_DATE", MaturityKey(ticker), reply)
  /\ calls' = calls + 1
  /\ UNCHANGED <<now, tz, ticks, concVars, driverVars>>

\* GET_NEAREST_OPTION_DATE has no cache key: its "before" is no entry.
Call_GET_NEAREST_OPTION_DATE ==
  /\ call.fn = "none"
  /\ calls < MaxCalls
  /\ \E ticker \in LookupTickers,
        response \in LookupBondizations(LocalDay(now, tz)) :
       LET reply == GET_NEAREST_OPTION_DATE(ticker, response, cache, now, tz)
       IN  /\ call' = [Lookup("GET_NEAREST_OPTION_DATE", ticker, response,
                              NoResponse, PriceKey(ticker), reply)
                         EXCEPT !.before = NoEntry]
           /\ cache' = reply.cache
  /\ calls' = calls + 1
  /\ UNCHANGED <<now, tz, ticks, populated, concVars, driverVars>>

\* Time passes between two invocations.
Tick ==
  /\ call.fn = "none"
  /\ ticks < MaxTicks
  /\ \E d \in TickSteps : now' = now + d
  /\ ticks' = ticks + 1
  /\ UNCHANGED <<cache, tz, calls, call, populated, concVars, driverVars>>

NextLookup ==
  \/ Call_GET_MOEX_PRICE
  \/ Call_GET_NEXT_COUPON
  \/ Call_GET_MOEX_NAME
  \/ Call_GET_COUPON_VALUE
  \/ Call_GET_MATURITY_DATE
  \/ Call_GET_NEAREST_OPTION_DATE
  \/ Tick
  \/ Return

SpecLookup == InitLookup /\ [][NextLookup]_vars

---------------------------------------------------------------------------
(* Properties of the resolvers.  They speak of the invocation recorded in  *)
(* call: its function, the response it was given and what it did.          *)

\* The response was received with code 200 and its text parsed.
Parsed200(response) ==
  ~response.threw /\ response.code = 200 /\ response.parses

\* The block is a tabular block (columns and rows) with a first row.
HasFirstRow(block) ==
  block.present /\ block.hasColumns /\ block.hasData /\ Len(block.data) > 0

\* The block is missing, lacks its row list, or its row list is empty.
MissingOrEmpty(block) ==
  ~block.present \/ ~block.hasData \/ Len(block.data) = 0

ColumnPresent(block, name) ==
  \E i \in 1..Len(block.columns) : block.columns[i] = name

\* The value of the named column in the first row, undefined when the
\* column is not in the column list.
FirstRowField(block, name) ==
  IF ColumnPresent(block, name)
    THEN block.data[1][CHOOSE i \in 1..Len(block.columns) :
                         block.columns[i] = name]
    ELSE JUndef

\* The four price fields in their order of priority.
PriceFields(body) ==
  <<FirstRowField(body.marketdata, "LAST"),
    FirstRowField(body.marketdata, "CLOSEPRICE"),
    FirstRowField(body.securities, "PREVLEGALCLOSEPRICE"),
    FirstRowField(body.securities, "PREVPRICE")>>

PriceCase ==
  /\ call.fn = "fetchSinglePriceInternal"
  /\ Parsed200(call.response)
  /\ HasFirstRow(call.response.body.marketdata)
  /\ HasFirstRow(call.response.body.securities)

\* C2: with a 200 snapshot whose marketdata and securities blocks both have
\* a first row, fetchSinglePriceInternal returns the number parsed from the
\* first of LAST, CLOSEPRICE, PREVLEGALCLOSEPRICE, PREVPRICE that is neither
\* null nor absent, and 'price not found' exactly when all four are null or
\* absent; LAST = null, CLOSEPRICE = 101.5, PREVPRICE = 99 gives 101.5.
C2_PriceFallbackOrder ==
  PriceCase =>
    LET f == PriceFields(call.response.body)
        found == {k \in 1..4 : ~IsNullish(f[k])}
        first == CHOOSE k \in found : \A j \in found : k <= j
    IN  /\ found # {} => call.out.result = ParseFloat(f[first])
        /\ found = {} <=> call.out.result = MsgPriceNotFound
        /\ (f[1] = JNull /\ f[2] = JNum(10150) /\ f[4] = JNum(9900))
             => call.out.result = JNum(10150)

\* The example of C2 happened: the second field in priority was returned.
C2_Witness ==
  /\ PriceCase
  /\ PriceFields(call.response.body)[1] = JNull
  /\ PriceFields(call.response.body)[2] = JNum(10150)
  /\ PriceFields(call.response.body)[4] = JNum(9900)
  /\ call.out.result = JNum(10150)

\* C3: with a 200 snapshot in which the securities block or the marketdata
\* block is missing or has no row, fetchSinglePriceInternal returns the
\* 'ticker not found / incomplete data' text having read no price field.
C3_IncompleteData ==
  ( /\ call.fn = "fetchSinglePriceInternal"
    /\ Parsed200(call.response)
    /\ \/ MissingOrEmpty(call.response.body.marketdata)
       \/ MissingOrEmpty(call.response.body.securities) )
  => /\ call.out.result = MsgIncomplete
     /\ call.out.reads = <<>>

\* One block carries a price and the other has an empty row list.
C3_Witness ==
  /\ call.fn = "fetchSinglePriceInternal"
  /\ Parsed200(call.response)
  /\ HasFirstRow(call.response.body.marketdata)
  /\ ~IsNullish(FirstRowField(call.response.body.marketdata, "LAST"))
  /\ call.response.body.securities.present
  /\ call.response.body.securities.hasData
  /\ Len(call.response.body.securities.data) = 0
  /\ call.out.result = MsgIncomplete

CouponValueCase ==
  /\ call.fn = "fetchCouponValueInternal"
  /\ Parsed200(call.response)
  /\ HasFirstRow(call.response.body.securities)

\* The parsed COUPONVALUE is a value other than zero.
NonZeroCouponValue(sec) ==
  /\ ColumnPresent(sec, "COUPONVALUE")
  /\ ~IsNullish(FirstRowField(sec, "COUPONVALUE"))
  /\ ParseFloat(FirstRowField(sec, "COUPONVALUE")) # JNum(0)

\* C4: fetchCouponValueInternal returns a COUPONVALUE whose parsed value is
\* not zero without requesting the bondization endpoint; when COUPONVALUE is
\* zero, null or its column absent it requests bondization after the
\* snapshot and returns what fetchCouponFromBondization returns.
C4_CouponValueStages ==
  CouponValueCase =>
    LET sec == call.response.body.securities
    IN  IF NonZeroCouponValue(sec)
          THEN /\ call.out.result = ParseFloat(FirstRowField(sec, "COUPONVALUE"))
               /\ call.out.requests = <<SnapshotRequest(call.ticker)>>
          ELSE /\ call.out.requests =
                    <<SnapshotRequest(call.ticker),
                      BondizationRequest(call.ticker)>>
               /\ call.out.result =
                    fetchCouponFromBondization(call.ticker, call.response2,
                                               now, tz).result

\* A COUPONVALUE of zero was passed over for the value of the schedule.
C4_Witness ==
  /\ CouponValueCase
  /\ FirstRowField(call.response.body.securities, "COUPONVALUE") = JNum(0)
  /\ Len(call.out.requests) = 2
  /\ call.out.result = JNum(6000)

CouponScanCase ==
  /\ call.fn = "fetchCouponFromBondization"
  /\ Parsed200(call.response)
  /\ call.response.body.coupons.present
  /\ call.response.body.coupons.hasColumns
  /\ call.response.body.coupons.hasData
  /\ ColumnPresent(call.response.body.coupons, "coupondate")

\* The calendar day of a Date built from a date-only text.
DayOf(date) == date.n \div 86400

\* What C5 says the scan over the date-ascending sequence S returns, today
\* being the local calendar day.
ExpectedCoupon(S, today) ==
  LET later == {i \in 1..Len(S) : DayOf(S[i].date) >= today}
      stop == IF later = {} THEN Len(S) + 1
              ELSE CHOOSE i \in later : \A j \in later : i <= j
      known == {i \in 1..(stop - 1) : KnownValue(S[i].value)}
      last == CHOOSE i \in known : \A j \in known : j <= i
  IN  IF stop <= Len(S) /\ KnownValue(S[stop].value) THEN S[stop].value
      ELSE IF known # {} THEN S[last].value
      ELSE MsgCouponUndetermined

\* C5: fetchCouponFromBondization stops at the first record dated on or
\* after today and returns its value if that is known (not null, NaN or
\* zero), else the latest known value before today, else 'coupon
\* undetermined'; (yesterday, 50), (today, 0), (tomorrow, 60) gives 50.
C5_CouponScanStopsAtToday ==
  CouponScanCase =>
    call.out.result =
      ExpectedCoupon(SortedCoupons(call.response.body.coupons),
                     LocalDay(now, tz))

EventCase ==
  /\ call.fn = "fetchBondOptionDatesInternal"
  /\ Parsed200(call.response)

\* The date texts of the rows of a block's date column that name a day on
\* or after the given day.
DatesOnOrAfter(block, column, today) ==
  IF block.present /\ block.hasColumns /\ block.hasData
       /\ ColumnPresent(block, column)
    THEN {NewDate(block.data[i][CHOOSE k \in 1..Len(block.columns) :
                                  block.columns[k] = column]) :
            i \in 1..Len(block.data)}
         \cap {JDate(86400 * d) : d \in today..(today + 20)}
    ELSE {}

UpcomingDates(body, today) ==
  DatesOnOrAfter(body.amortizations, "amortdate", today)
    \cup DatesOnOrAfter(body.offers, "offerdate", today)

\* C6: fetchBondOptionDatesInternal returns the earliest amortdate or
\* offerdate that is on or after today, and the 'no offers/amortizations'
\* text exactly when no row has such a date.
C6_NearestEventDate ==
  EventCase =>
    LET upcoming == UpcomingDates(call.response.body, LocalDay(now, tz))
    IN  /\ upcoming = {} <=> call.out.result = MsgNoOffers
        /\ upcoming # {} =>
             /\ call.out.result \in upcoming
             /\ \A d \in upcoming : call.out.result.n <= d.n

\* A date text that names a calendar day on or after the given day.
IsUpcoming(dStr, today) ==
  /\ dStr.t = "string"
  /\ NewDate(dStr).t = "Date"
  /\ DayOf(NewDate(dStr)) >= today

\* The rows of a block's date column as records of date text and type.
EventRows(block, column, typeColumn, defaultType) ==
  IF block.present /\ block.hasColumns /\ block.hasData
       /\ ColumnPresent(block, column)
    THEN [i \in 1..Len(block.data) |->
            LET k == CHOOSE k \in 1..Len(block.columns) :
                       block.columns[k] = column
                ty == IF ColumnPresent(block, typeColumn)
                        THEN block.data[i][CHOOSE m \in 1..Len(block.columns) :
                                             block.columns[m] = typeColumn]
                        ELSE JNull
            IN  [dStr |-> block.data[i][k],
                 type |-> IF Falsy(ty) THEN defaultType ELSE ty]]
    ELSE <<>>

\* The descriptions of the today-or-future events in insertion order:
\* amortizations, then offers.
UpcomingDescriptions(body, today) ==
  LET rows == EventRows(body.amortizations, "amortdate", "none",
                        TypeAmortization)
                \o EventRows(body.offers, "offerdate", "offertype", TypeOffer)
      upcoming == SelectSeq(rows, LAMBDA r : IsUpcoming(r.dStr, today))
  IN  [i \in 1..Len(upcoming) |->
         Description(upcoming[i].type, upcoming[i].dStr)]

\* The position of the first occurrence of e in seq.
FirstPosition(seq, e) ==
  CHOOSE i \in 1..Len(seq) :
    seq[i] = e /\ \A j \in 1..(i - 1) : seq[j] # e

\* C7: the note lists every distinct description of a today-or-future event
\* once, in ascending date order, events of equal date in insertion order
\* (amortizations before offers), and its final line names the description
\* of the earliest event, which is also its first line.
C7_NoteListsEvents ==
  EventCase =>
    LET ins == UpcomingDescriptions(call.response.body, LocalDay(now, tz))
        lines == call.out.note.lines
    IN  /\ call.out.note.has <=> ins # <<>>
        /\ {lines[i] : i \in 1..Len(lines)} = {ins[i] : i \in 1..Len(ins)}
        /\ \A i, j \in 1..Len(lines) : i < j =>
             /\ lines[i] # lines[j]
             /\ NewDate(lines[i].dStr).n <= NewDate(lines[j].dStr).n
             /\ NewDate(lines[i].dStr).n = NewDate(lines[j].dStr).n
                  => FirstPosition(ins, lines[i]) < FirstPosition(ins, lines[j])
        /\ call.out.note.has =>
             /\ call.out.note.nearest = <<lines[1]>>
             /\ NewDate(lines[1].dStr) = call.out.result

DateFieldCase(fn) ==
  /\ call.fn = fn
  /\ Parsed200(call.response)
  /\ HasFirstRow(call.response.body.securities)

\* What C8 says of one date column, in terms of which values count as
\* unavailable.
DateFieldRule(fn, column, unavailable, unavailableValues) ==
  DateFieldCase(fn) =>
    LET sec == call.response.body.securities
        v == FirstRowField(sec, column)
    IN  /\ ~ColumnPresent(sec, column)
             => call.out.result = MsgFieldAbsent(column)
        /\ (ColumnPresent(sec, column) /\ v \in unavailableValues)
             => call.out.result = unavailable /\ call.out.parsed = 0
        /\ (ColumnPresent(sec, column) /\ v \notin unavailableValues)
             => call.out.result = NewDate(v) /\ call.out.parsed = 1
        /\ MsgFieldAbsent(column) # unavailable

NameCase ==
  /\ call.fn = "fetchBondNameInternal"
  /\ Parsed200(call.response)
  /\ HasFirstRow(call.response.body.securities)

\* The named column is present and its value is a non-empty text.
NonEmptyName(sec, column) ==
  /\ ColumnPresent(sec, column)
  /\ FirstRowField(sec, column).t = "string"
  /\ FirstRowField(sec, column).s # <<>>

\* C9: fetchBondNameInternal returns SECNAME when present and non-empty,
\* else SHORTNAME when present and non-empty, else 'name not found'.
C9_NamePreference ==
  NameCase =>
    LET sec == call.response.body.securities
    IN  call.out.result =
          IF NonEmptyName(sec, "SECNAME") THEN FirstRowField(sec, "SECNAME")
          ELSE IF NonEmptyName(sec, "SHORTNAME")
            THEN FirstRowField(sec, "SHORTNAME")
          ELSE MsgNameNotFound

\* Both names were there and the full one was returned.
C9_Witness ==
  /\ NameCase
  /\ NonEmptyName(call.response.body.securities, "SECNAME")
  /\ NonEmptyName(call.response.body.securities, "SHORTNAME")
  /\ FirstRowField(call.response.body.securities, "SECNAME")
       # FirstRowField(call.response.body.securities, "SHORTNAME")
  /\ call.out.result = FirstRowField(call.response.body.securities, "SECNAME")

---------------------------------------------------------------------------
(* Properties of the exposed functions.  They speak of the invocation      *)
(* recorded in call, the cache entry its key held before, and the cache    *)
(* it left.                                                                *)

ExposedFunctions ==
  {"GET_MOEX_PRICE", "GET_NEXT_COUPON", "GET_MOEX_NAME", "GET_COUPON_VALUE",
   "GET_MATURITY_DATE", "GET_NEAREST_OPTION_DATE"}

CachedFunctions == ExposedFunctions \ {"GET_NEAREST_OPTION_DATE"}

\* The ticker is empty or holds only whitespace.
OnlyWhitespace(ticker) == \A i \in 1..Len(ticker) : IsSpace(ticker[i])

\* C1: every exposed function called with a ticker that is empty or only
\* whitespace returns null and issues no HTTP request.
C1_BlankTickerNull ==
  (call.fn \in ExposedFunctions /\ OnlyWhitespace(call.ticker)) =>
    /\ call.out.result = JNull
    /\ call.out.requests = <<>>

\* The five cached functions do return null without a request.
C1_CachedFunctionsNull ==
  (call.fn \in CachedFunctions /\ OnlyWhitespace(call.ticker)) =>
    /\ call.out.result = JNull
    /\ call.out.requests = <<>>

\* The key of each cached function and the expiration time stated for it.
StatedKey(fn, ticker) ==
  CASE fn = "GET_MOEX_PRICE" -> PriceKey(ticker)
    [] fn = "GET_NEXT_COUPON" -> CouponKey(ticker)
    [] fn = "GET_MOEX_NAME" -> NameKey(ticker)
    [] fn = "GET_COUPON_VALUE" -> CouponValueKey(ticker)
    [] fn = "GET_MATURITY_DATE" -> MaturityKey(ticker)

StatedTtl(fn) ==
  CASE fn = "GET_MOEX_PRICE" -> 300
    [] fn = "GET_NEXT_COUPON" -> 21600
    [] fn = "GET_MOEX_NAME" -> 86400
    [] fn = "GET_COUPON_VALUE" -> 21600
    [] fn = "GET_MATURITY_DATE" -> 86400

\* The text a function puts for a result: the name as it is, the others
\* through JSON.stringify.
StoredText(fn, result) ==
  IF fn = "GET_MOEX_NAME" THEN result ELSE JsonStringify(result)

\* An invocation of a cached function with a non-blank ticker.
CachedCase == call.fn \in CachedFunctions /\ ~OnlyWhitespace(call.ticker)

\* The entry under the function's key was put less than its time ago.
LiveBefore ==
  /\ call.before.present
  /\ now - call.before.putAt < StatedTtl(call.fn)

\* C10: a cached function with a non-blank ticker reads the cache first; on
\* a hit (an entry put less than the function's TTL ago) it issues no
\* request and leaves the entry; otherwise (no entry, or expired) it
\* invokes its resolver, which requests the feed, and puts the result,
\* success or error, under its key with its TTL of 300, 21600, 86400, 21600
\* and 86400 seconds for price, next coupon, name, coupon value and
\* maturity date.
C10_CacheThenFetch ==
  CachedCase =>
    LET key == StatedKey(call.fn, call.ticker)
    IN  IF LiveBefore
          THEN /\ call.out.requests = <<>>
               /\ call.response = NoResponse
               /\ cache[key] = call.before
          ELSE /\ call.out.requests # <<>>
               /\ call.response # NoResponse
               /\ cache[key] = [present |-> TRUE,
                                value |-> StoredText(call.fn, call.out.result),
                                putAt |-> now,
                                ttl |-> StatedTtl(call.fn)]

\* Where the entry found was put by the function itself (it carries the
\* function's TTL), the calls go as C10 says.
C10_OwnEntries ==
  (call.before.present => call.before.ttl = StatedTtl(call.fn))
    => C10_CacheThenFetch

\* A second call some time after the first, within the TTL, hits the cache.
C10_Witness ==
  /\ CachedCase
  /\ LiveBefore
  /\ now > call.before.putAt
  /\ call.out.requests = <<>>

\* A call after the entry expired fetches again and puts a new entry.
C10_RefetchAfterExpiry ==
  /\ CachedCase
  /\ call.before.present
  /\ ~LiveBefore
  /\ call.out.requests # <<>>
  /\ cache[StatedKey(call.fn, call.ticker)].putAt = now

\* The invocation was served from the cache.
CacheHit == CachedCase /\ call.out.requests = <<>>

\* What the miss that populated the invocation's key did.
Populated == populated[StatedKey(call.fn, call.ticker)]

DateFunctions == {"GET_NEXT_COUPON", "GET_MATURITY_DATE"}

\* A hit of a date function on the entry its own miss put for a Date.
DateHit ==
  /\ CacheHit
  /\ call.fn \in DateFunctions
  /\ Populated.fn = call.fn
  /\ Populated.result.t = "Date"

\* C11: for GET_NEXT_COUPON and GET_MATURITY_DATE, when the resolver
\* returned a Date, the entry stored is the text of that Date and a later
\* hit returns a Date of the same calendar date, in every zone considered.
C11_DateRoundTrip ==
  DateHit =>
    /\ call.before.value = JsonStringify(Populated.result)
    /\ call.out.result.t = "Date"
    /\ \A z \in TzOffsets \cup {tz} :
         LocalDay(call.out.result.n, z) = LocalDay(Populated.result.n, z)

\* A date was read back from the cache some time after it was put.
C11_Witness ==
  /\ DateHit
  /\ now > call.before.putAt
  /\ call.out.result = Populated.result

\* C12: an exposed function called with a text as its ticker returns a
\* value and does not throw, whatever the earlier calls left in the cache;
\* a response with a code other than 200 gives an API error text carrying
\* the code.
C12_NeverThrows ==
  call.fn \in ExposedFunctions =>
    /\ call.out.result.t # "throw"
    /\ \A r \in {call.response, call.response2} :
         (r # NoResponse /\ ~r.threw /\ r.code # 200
            /\ (r = call.response2 \/ call.response2 = NoResponse))
           => call.out.result \in {MsgApiError(r.code),
                                   MsgApiErrorBondization(r.code)}

\* An exposed function throws only on a hit on an entry another function
\* put.
C12_ThrowsOnlyOnForeignEntry ==
  (call.fn \in ExposedFunctions /\ call.out.result.t = "throw")
    => (CacheHit /\ Populated.fn # call.fn)

\* The lookups that use the cache: a cached function and a non-blank ticker.
CachedLookups ==
  {<<fn, ticker>> : fn \in CachedFunctions,
                    ticker \in {x \in LookupTickers : ~OnlyWhitespace(x)}}

\* C14: two lookups that differ in ticker or in fact use different cache
\* keys (the ticker for price, the ticker followed by _coupon, _name,
\* _coupon_value_v3, _maturity for the others), so a hit never reads an
\* entry put by a lookup of another fact or ticker.
C14_KeysDistinct ==
  /\ \A a \in CachedLookups, b \in CachedLookups :
       a # b => StatedKey(a[1], a[2]) # StatedKey(b[1], b[2])
  /\ CacheHit => Populated.fn = call.fn

\* A hit on what another function put under the same key.
C14_ForeignEntryRead ==
  /\ CacheHit
  /\ Populated.fn # call.fn

\* C16: a call of a cached function that hits the cache returns the outcome
\* of the miss that populated the entry: the same number, date, name or
\* error text.
C16_HitReturnsMissOutcome ==
  CacheHit => call.out.result = Populated.result

\* Away from a shared key, the hits that differ are those of the date
\* functions on an error text.
C16_OwnEntryDateText ==
  (CacheHit /\ Populated.fn = call.fn
     /\ call.out.result # Populated.result)
  => /\ call.fn \in DateFunctions
     /\ Populated.result.t = "string"
     /\ call.out.result = InvalidDate

NearestCase ==
  /\ call.fn = "GET_NEAREST_OPTION_DATE"
  /\ call.ticker # <<>>

\* C19: GET_NEAREST_OPTION_DATE with a non-empty ticker issues one
\* bondization request whatever the cache holds, and leaves the cache as it
\* was.
C19_NearestIgnoresCache ==
  /\ [](NearestCase =>
          call.out.requests = <<BondizationRequest(call.ticker)>>)
  /\ [][call'.fn = "GET_NEAREST_OPTION_DATE" => cache' = cache]_vars

\* The request was issued although an earlier call for the same ticker had
\* filled the cache.
C19_Witness ==
  /\ NearestCase
  /\ cache[PriceKey(call.ticker)].present
  /\ call.out.requests = <<BondizationRequest(call.ticker)>>

---------------------------------------------------------------------------
(* Further properties of the resolvers *)

SnapshotResolvers ==
  {"fetchSinglePriceInternal", "fetchNextCouponInternal",
   "fetchBondNameInternal", "fetchMaturityDateInternal"}

\* C13: a resolver repeats no request: price, next coupon, name and
\* maturity date issue exactly one snapshot request, the nearest event
\* exactly one bondization request; coupon value issues the snapshot request
\* and at most one bondization request after it, and that only when the
\* snapshot response was a 200 with a non-empty securities block.
C13_NoRepeatedRequest ==
  LET reqs == call.out.requests
  IN  /\ call.fn \in SnapshotResolvers
           => reqs = <<SnapshotRequest(call.ticker)>>
      /\ call.fn = "fetchBondOptionDatesInternal"
           => reqs = <<BondizationRequest(call.ticker)>>
      /\ call.fn = "fetchCouponValueInternal"
           => /\ reqs \in {<<SnapshotRequest(call.ticker)>>,
                           <<SnapshotRequest(call.ticker),
                             BondizationRequest(call.ticker)>>}
              /\ Len(reqs) = 2
                   => /\ Parsed200(call.response)
                      /\ HasFirstRow(call.response.body.securities)
              /\ (call.response.threw \/ call.response.code # 200
                    \/ call.out.result = MsgTickerNotFound)
                   => Len(reqs) = 1

\* The coupon value was asked of both endpoints, one request each.
C13_Witness ==
  /\ call.fn = "fetchCouponValueInternal"
  /\ call.out.requests = <<SnapshotRequest(call.ticker),
                           BondizationRequest(call.ticker)>>
  /\ call.out.result.t = "number"

\* The cell of a row under a named column, undefined without the column.
RowField(block, r, name) ==
  IF ColumnPresent(block, name)
    THEN r[CHOOSE i \in 1..Len(block.columns) : block.columns[i] = name]
    ELSE JUndef

\* The value C17 gives the record of row r.
StatedCouponValue(block, r) ==
  IF ColumnPresent(block, "value_rub")
       /\ RowField(block, r, "value_rub") # JNull
    THEN ParseFloat(RowField(block, r, "value_rub"))
  ELSE IF ColumnPresent(block, "value") /\ RowField(block, r, "value") # JNull
    THEN ParseFloat(RowField(block, r, "value"))
  ELSE JNull

\* C17: the value of a coupon record built by fetchCouponFromBondization is
\* that of value_rub when the column is present and the cell is not null,
\* that of value otherwise, and null when neither gives a value; a block of
\* one row shows it in the result.
C17_ValueRubPreferred ==
  CouponScanCase =>
    LET cp == call.response.body.coupons
        record(r) == CouponRecord(r, IndexOf(cp.columns, "coupondate"),
                                  IndexOf(cp.columns, "value"),
                                  IndexOf(cp.columns, "value_rub"))
    IN  /\ \A i \in 1..Len(cp.data) :
             record(cp.data[i]).value = StatedCouponValue(cp, cp.data[i])
        /\ Len(cp.data) = 1 =>
             call.out.result =
               IF KnownValue(StatedCouponValue(cp, cp.data[1]))
                 THEN StatedCouponValue(cp, cp.data[1])
                 ELSE MsgCouponUndetermined

\* Both columns carried a value and that of value_rub was returned.
C17_Witness ==
  /\ CouponScanCase
  /\ Len(call.response.body.coupons.data) = 1
  /\ RowField(call.response.body.coupons,
              call.response.body.coupons.data[1], "value") = JNum(5000)
  /\ RowField(call.response.body.coupons,
              call.response.body.coupons.data[1], "value_rub") = JNum(6000)
  /\ call.out.result = JNum(6000)

CouponResolvers == {"fetchCouponValueInternal", "fetchCouponFromBondization"}

\* The bondization response the invocation read, if it read one.
BondizationRead ==
  IF call.fn = "fetchCouponFromBondization" THEN call.response
  ELSE call.response2

\* No coupon record of the bondization response has a value other than
\* null, NaN and zero.
NoKnownCoupon ==
  \/ ~Parsed200(BondizationRead)
  \/ LET cp == BondizationRead.body.coupons
     IN  \/ ~cp.present \/ ~cp.hasData \/ ~cp.hasColumns
         \/ \A i \in 1..Len(cp.data) :
              ~KnownValue(StatedCouponValue(cp, cp.data[i]))

\* The first row carries a COUPONVALUE that parses to a number other than
\* zero.
NumericCouponValue(sec) ==
  /\ NonZeroCouponValue(sec)
  /\ ParseFloat(FirstRowField(sec, "COUPONVALUE")).t = "number"

\* C18: fetchCouponValueInternal and fetchCouponFromBondization, whose
\* result GET_COUPON_VALUE returns on a miss, return a number other than
\* zero or an error text, and the error text whenever neither COUPONVALUE
\* nor a coupon record offers a number other than zero.
C18_NumberOrErrorText ==
  call.fn \in CouponResolvers =>
    /\ call.out.result.t \in {"number", "string"}
    /\ call.out.result # JNum(0)
    /\ ( /\ NoKnownCoupon
         /\ call.fn = "fetchCouponValueInternal" =>
              ~( /\ CouponValueCase
                 /\ NumericCouponValue(call.response.body.securities) ) )
       => call.out.result.t = "string"

\* The snapshot carried a COUPONVALUE that is no number and NaN came back.
C18_NaNReturned ==
  /\ CouponValueCase
  /\ ~NumericCouponValue(call.response.body.securities)
  /\ call.out.requests = <<SnapshotRequest(call.ticker)>>
  /\ call.out.result.t = "NaN"

\* The number zero is never the result, and with NaN counted as a value
\* other than zero the error text is returned whenever no value is on offer.
C18_NeverZero ==
  call.fn \in CouponResolvers =>
    /\ call.out.result # JNum(0)
    /\ call.out.result.t \in {"number", "NaN", "string"}
    /\ ( /\ NoKnownCoupon
         /\ call.fn = "fetchCouponValueInternal" =>
              ~( /\ CouponValueCase
                 /\ NonZeroCouponValue(call.response.body.securities) ) )
       => call.out.result.t = "string"

\* A zero COUPONVALUE and a zero coupon in the schedule gave an error text.
C18_Witness ==
  /\ CouponValueCase
  /\ FirstRowField(call.response.body.securities, "COUPONVALUE") = JNum(0)
  /\ Len(call.out.requests) = 2
  /\ Parsed200(call.response2)
  /\ \E i \in 1..Len(call.response2.body.coupons.data) :
       StatedCouponValue(call.response2.body.coupons,
                         call.response2.body.coupons.data[i]) = JNum(0)
  /\ call.out.result = MsgCouponUndetermined

---------------------------------------------------------------------------
(* The batch refresh driver, forceRecalculatePrices.  A formula is the     *)
(* sequence of its characters, the empty sequence for a cell without one;  *)
(* a sheet is allFormulas, a sequence of rows of equal length.             *)

\* The two copies of the driver.
Variants == {"gs_moex_bond_tools", "rebalance_bonds_11-2025"}

\* CUSTOM_FUNCTIONS (gs_moex_bond_tools, lines 10-17).
CUSTOM_FUNCTIONS ==
  << <<"G", "E", "T", "_", "M", "O", "E", "X", "_", "P", "R", "I", "C", "E">>,
     <<"G", "E", "T", "_", "N", "E", "X", "T", "_", "C", "O", "U", "P", "O", "N">>,
     <<"G", "E", "T", "_", "M", "O", "E", "X", "_", "N", "A", "M", "E">>,
     <<"G", "E", "T", "_", "C", "O", "U", "P", "O", "N", "_", "V", "A", "L", "U", "E">>,
     <<"G", "E", "T", "_", "M", "A", "T", "U", "R", "I", "T", "Y", "_", "D", "A", "T", "E">>,
     <<"G", "E", "T", "_", "N", "E", "A", "R", "E", "S", "T", "_", "O", "P", "T", "I", "O", "N", "_", "D", "A", "T", "E">> >>

\* targetFunctionName (rebalance_bonds_11-2025, line 46).
targetFunctionName ==
  <<"G", "E", "T", "_", "M", "O", "E", "X", "_", "P", "R", "I", "C", "E">>

LowerCaseLetters ==
  <<"a", "b", "c", "d", "e", "f", "g", "h", "i", "j", "k", "l", "m", "n",
    "o", "p", "q", "r", "s", "t", "u", "v", "w", "x", "y", "z">>

UpperCaseLetters ==
  <<"A", "B", "C", "D", "E", "F", "G", "H", "I", "J", "K", "L", "M", "N",
    "O", "P", "Q", "R", "S", "T", "U", "V", "W", "X", "Y", "Z">>

\* String.prototype.toUpperCase on the characters the formulas are made of.
toUpperCase(text) ==
  [k \in DOMAIN text |->
     IF \E n \in DOMAIN LowerCaseLetters : LowerCaseLetters[n] = text[k]
       THEN UpperCaseLetters[CHOOSE n \in DOMAIN LowerCaseLetters :
                               LowerCaseLetters[n] = text[k]]
       ELSE text[k]]

\* String.prototype.includes: part occurs in text as a run of characters.
includes(text, part) ==
  \E k \in 0..(Len(text) - Len(part)) :
    SubSeq(text, k + 1, k + Len(part)) = part

\* The test of the scan on one formula: the formula is not empty and, in
\* upper case, includes a name the copy searches for (lines 68-71 with
\* CUSTOM_FUNCTIONS.some; lines 54-57 of the other copy with the one name).
hasCustomFunction(v, formula) ==
  /\ formula # <<>>
  /\ IF v = "gs_moex_bond_tools"
       THEN \E n \in DOMAIN CUSTOM_FUNCTIONS :
              includes(toUpperCase(formula), CUSTOM_FUNCTIONS[n])
       ELSE includes(toUpperCase(formula), targetFunctionName)

\* The scan taking the columns one after another.
FindTargetCells_ColumnMajor(v, allFormulas, i, j) ==
  LET RECURSIVE scan(_, _)
      scan(a, b) ==
        IF b > Len(allFormulas[1]) THEN <<>>
        ELSE IF a > Len(allFormulas) THEN scan(1, b + 1)
        ELSE (IF hasCustomFunction(v, allFormulas[a][b])
                THEN << <<a, b>> >> ELSE <<>>) \o scan(a + 1, b)
  IN  scan(i, j)

\* The nested loops of the scan from cell (i, j) on: targetCells gets the
\* range of every matching cell, a row at a time and left to right in a row.
RECURSIVE FindTargetCells(_, _, _, _)
FindTargetCells(v, allFormulas, i, j) ==
  IF i > Len(allFormulas) THEN <<>>
  ELSE IF j > Len(allFormulas[i]) THEN FindTargetCells(v, allFormulas, i + 1, 1)
  ELSE (IF hasCustomFunction(v, allFormulas[i][j])
          THEN << <<i, j>> >> ELSE <<>>)
       \o FindTargetCells(v, allFormulas, i, j + 1)

\* The formulas a cell starts with: none, a price formula, a coupon formula
\* typed in lower case, and a formula that names no custom function.
Formulas ==
  { <<>>,
    <<"=", "G", "E", "T", "_", "M", "O", "E", "X", "_", "P", "R", "I", "C",
      "E", "(", "A", ")">>,
    <<"=", "g", "e", "t", "_", "n", "e", "x", "t", "_", "c", "o", "u", "p",
      "o", "n", "(", "A", ")">>,
    <<"=", "S", "U", "M", "(", "A", ")">> }

MaxRows == 2

SheetWidths == {1, 2}

Sheets ==
  UNION {[1..r -> [1..c -> Formulas]] : r \in 1..MaxRows, c \in SheetWidths}

DriverAt(pc, i, originalFormula) ==
  [pc |-> pc, i |-> i, originalFormula |-> originalFormula]

\* The driver is started on a sheet; no custom function is being evaluated.
InitRefresh ==
  /\ cache = [k \in CacheKeys |-> NoEntry]
  /\ now = 10 * 86400 + 3600
  /\ tz = 3
  /\ ticks = 0
  /\ calls = 0
  /\ call = NoCall
  /\ populated = [k \in CacheKeys |-> NotPopulated]
  /\ IdleConc
  /\ variant \in Variants
  /\ sheet \in Sheets
  /\ start = sheet
  /\ targetCells = <<>>
  /\ driver = DriverAt("scan", 0, <<>>)

\* getDataRange().getFormulas() and the scan; without a target the alert
\* is shown and the function returns.
Driver_scan ==
  /\ driver.pc = "scan"
  /\ targetCells' = FindTargetCells(variant, sheet, 1, 1)
  /\ driver' = IF targetCells' = <<>> THEN DriverAt("done", 0, <<>>)
               ELSE DriverAt("getFormula", 1, <<>>)
  /\ UNCHANGED <<variant, sheet, start>>
  /\ UNCHANGED <<cache, now, tz, ticks, calls, call, populated, concVars>>

\* const originalFormula = cell.getFormula()
Driver_getFormula ==
  /\ driver.pc = "getFormula"
  /\ LET cell == targetCells[driver.i]
     IN  driver' = DriverAt("clearContent", driver.i, sheet[cell[1]][cell[2]])
  /\ UNCHANGED <<variant, sheet, start, targetCells>>
  /\ UNCHANGED <<cache, now, tz, ticks, calls, call, populated, concVars>>

\* cell.clearContent(); SpreadsheetApp.flush()
Driver_clearContent ==
  /\ driver.pc = "clearContent"
  /\ LET cell == targetCells[driver.i]
     IN  sheet' = [sheet EXCEPT ![cell[1]][cell[2]] = <<>>]
  /\ driver' = [driver EXCEPT !.pc = "setFormula"]
  /\ UNCHANGED <<variant, start, targetCells>>
  /\ UNCHANGED <<cache, now, tz, ticks, calls, call, populated, concVars>>

\* cell.setFormula(originalFormula); Utilities.sleep(DELAY_MS); then the
\* next cell of targetCells, or the end of forEach.
Driver_setFormula ==
  /\ driver.pc = "setFormula"
  /\ LET cell == targetCells[driver.i]
     IN  sheet' = [sheet EXCEPT ![cell[1]][cell[2]] = driver.originalFormula]
  /\ driver' = IF driver.i = Len(targetCells) THEN DriverAt("done", driver.i, <<>>)
               ELSE DriverAt("getFormula", driver.i + 1, <<>>)
  /\ UNCHANGED <<variant, start, targetCells>>
  /\ UNCHANGED <<cache, now, tz, ticks, calls, call, populated, concVars>>

NextRefresh ==
  \/ Driver_scan
  \/ Driver_getFormula
  \/ Driver_clearContent
  \/ Driver_setFormula

SpecRefresh == InitRefresh /\ [][NextRefresh]_vars

\* The script runs one statement after another until it returns.
SpecRefreshFair == SpecRefresh /\ WF_vars(NextRefresh)

---------------------------------------------------------------------------
(* Properties of the batch refresh driver *)

Cells(sh) == {<<i, j>> : i \in 1..Len(sh), j \in 1..Len(sh[1])}

FormulaAt(sh, c) == sh[c[1]][c[2]]

\* The formula names, in either case, one of the names.
ContainsName(formula, names) ==
  \E name \in names : includes(toUpperCase(formula), name)

\* The names the driver of a copy searches the formulas for.
SearchedNames(v) ==
  IF v = "gs_moex_bond_tools"
    THEN {CUSTOM_FUNCTIONS[n] : n \in DOMAIN CUSTOM_FUNCTIONS}
    ELSE {targetFunctionName}

\* The custom functions a copy of the script defines: the six of
\* gs_moex_bond_tools, and GET_MOEX_PRICE, GET_NEXT_COUPON and GET_MOEX_NAME
\* of rebalance_bonds_11-2025.
CustomFunctionsOf(v) ==
  IF v = "gs_moex_bond_tools"
    THEN {CUSTOM_FUNCTIONS[n] : n \in DOMAIN CUSTOM_FUNCTIONS}
    ELSE {CUSTOM_FUNCTIONS[n] : n \in 1..3}

RowMajorBefore(c, d) == c[1] < d[1] \/ (c[1] = d[1] /\ c[2] < d[2])

\* targetCells lists the cells whose formula names one of the names, each
\* once and a row at a time.
ListsInRowMajorOrder(names) ==
  /\ {targetCells[k] : k \in DOMAIN targetCells}
       = {c \in Cells(start) : ContainsName(FormulaAt(start, c), names)}
  /\ \A k, l \in DOMAIN targetCells :
       k < l => RowMajorBefore(targetCells[k], targetCells[l])

\* Every cell holds the formula it held at the start, but for the one cell
\* that is cleared and not yet set back.
OneCellAtATime ==
  \A c \in Cells(start) :
    FormulaAt(sheet, c) =
      IF driver.pc = "setFormula" /\ c = targetCells[driver.i]
        THEN <<>> ELSE FormulaAt(start, c)

\* A step that writes to the sheet clears the cell in turn or sets it back,
\* and the turn passes to the next cell only when the cell was set back.
ClearThenSetBack ==
  /\ sheet' # sheet =>
       /\ driver.i \in DOMAIN targetCells
       /\ \A c \in Cells(start) :
            c # targetCells[driver.i] => FormulaAt(sheet', c) = FormulaAt(sheet, c)
       /\ \/ /\ FormulaAt(sheet, targetCells[driver.i])
                  = FormulaAt(start, targetCells[driver.i])
             /\ FormulaAt(sheet', targetCells[driver.i]) = <<>>
             /\ driver'.i = driver.i
          \/ /\ FormulaAt(sheet, targetCells[driver.i]) = <<>>
             /\ FormulaAt(sheet', targetCells[driver.i])
                  = FormulaAt(start, targetCells[driver.i])
  /\ driver'.i # driver.i =>
       /\ driver'.i = driver.i + 1
       /\ driver.i >= 1 =>
            /\ FormulaAt(sheet, targetCells[driver.i]) = <<>>
            /\ FormulaAt(sheet', targetCells[driver.i])
                 = FormulaAt(start, targetCells[driver.i])
  /\ targetCells # <<>> => targetCells' = targetCells

\* C20 as stated: the cells the driver processes are those whose formula
\* names a custom function of the script.
C20_CustomFunctionCellsProcessed ==
  driver.pc # "scan" => ListsInRowMajorOrder(CustomFunctionsOf(variant))

\* C20: forceRecalculatePrices terminates; it processes the cells whose
\* formula names a function it searches for (one of CUSTOM_FUNCTIONS in
\* gs_moex_bond_tools, GET_MOEX_PRICE alone in rebalance_bonds_11-2025), a
\* row at a time, clearing a cell and setting it back to its formula before
\* the next is touched; at the end every cell holds the formula it held at
\* the start, the other cells are never modified, and without such a cell
\* nothing is modified.
C20_RefreshInOrder ==
  /\ [](driver.pc # "scan" => ListsInRowMajorOrder(SearchedNames(variant)))
  /\ []OneCellAtATime
  /\ [](driver.pc = "done" => sheet = start /\ driver.i = Len(targetCells))
  /\ [][ClearThenSetBack]_vars
  /\ <>(driver.pc = "done")

\* The driver finished after refreshing the second cell of the first row
\* and then the first cell of the second row, leaving a third cell alone.
C20_Witness ==
  /\ driver.pc = "done"
  /\ targetCells = << <<1, 2>>, <<2, 1>> >>
  /\ FormulaAt(start, <<1, 1>>) # <<>>
  /\ sheet = start

\* The driver of rebalance_bonds_11-2025 finished without touching a cell
\* that holds a GET_NEXT_COUPON formula.
C20_CouponCellSkipped ==
  /\ variant = "rebalance_bonds_11-2025"
  /\ driver.pc = "done"
  /\ \E c \in Cells(start) :
       /\ ContainsName(FormulaAt(start, c), {CUSTOM_FUNCTIONS[2]})
       /\ \A k \in DOMAIN targetCells : targetCells[k] # c

---------------------------------------------------------------------------
(* Concurrent invocations of the exposed functions.  Two invocations, for *)
(* different tickers, share the script cache and take their steps         *)
(* (cache.get, the fetch, cache.put) in any order; the responses of the   *)
(* API are fixed for each ticker.                                         *)

ConcurrentTickers == {<<"A">>, <<"A", "_", "n", "a", "m", "e">>}

ConcurrentFunctions ==
  {"GET_MOEX_PRICE", "GET_NEXT_COUPON", "GET_MOEX_NAME", "GET_COUPON_VALUE",
   "GET_MATURITY_DATE", "GET_NEAREST_OPTION_DATE"}

\* The states of the upstream API: what each endpoint answers for a ticker.
ApiStates(day) ==
  [snapshot : [ConcurrentTickers -> LookupSnapshots(day)],
   bondization : [ConcurrentTickers -> LookupBondizations(day)]]

EmptyCache == [k \in CacheKeys |-> NoEntry]

\* The exposed function fn run from its first statement to its return on
\* cache c, against the API state a.
Invoke(fn, ticker, a, c, t, z) ==
  CASE fn = "GET_MOEX_PRICE" ->
         GET_MOEX_PRICE(ticker, a.snapshot[ticker], c, t)
    [] fn = "GET_NEXT_COUPON" ->
         GET_NEXT_COUPON(ticker, a.snapshot[ticker], c, t)
    [] fn = "GET_MOEX_NAME" ->
         GET_MOEX_NAME(ticker, a.snapshot[ticker], c, t)
    [] fn = "GET_COUPON_VALUE" ->
         GET_COUPON_VALUE(ticker, a.snapshot[ticker], a.bondization[ticker],
                          c, t, z)
    [] fn = "GET_MATURITY_DATE" ->
         GET_MATURITY_DATE(ticker, a.snapshot[ticker], c, t)
    [] fn = "GET_NEAREST_OPTION_DATE" ->
         GET_NEAREST_OPTION_DATE(ticker, a.bondization[ticker], c, t, z)

\* An invocation under way: its function and ticker, the statement it is
\* at, what its fetch gave and left to put, and the value it returned.
Proc(fn, ticker, pc, fetched, result) ==
  [fn |-> fn, ticker |-> ticker, pc |-> pc, fetched |-> fetched,
   result |-> result]

\* The first statement after the ticker check: cache.get for the cached
\* functions, the fetch for GET_NEAREST_OPTION_DATE.
FirstStep(fn) == IF fn = "GET_NEAREST_OPTION_DATE" THEN "fetch" ELSE "get"

\* The caches the invocations may find: an empty one, and one that holds
\* the price of ticker A.
InitialCaches(a, t, z) ==
  {EmptyCache, Invoke("GET_MOEX_PRICE", <<"A">>, a, EmptyCache, t, z).cache}

InitConcurrent ==
  /\ now = 10 * 86400 + 3600
  /\ tz = 3
  /\ ticks = 0
  /\ calls = 0
  /\ call = NoCall
  /\ populated = [k \in CacheKeys |-> NotPopulated]
  /\ IdleDriver
  /\ api \in ApiStates(LocalDay(now, tz))
  /\ cache0 \in InitialCaches(api, now, tz)
  /\ cache = cache0
  /\ \E f1, f2 \in ConcurrentFunctions, t1, t2 \in ConcurrentTickers :
       /\ t1 # t2
       /\ procs = <<Proc(f1, t1, FirstStep(f1), Reply(JUndef, <<>>, NoNote, EmptyCache), JUndef),
                    Proc(f2, t2, FirstStep(f2), Reply(JUndef, <<>>, NoNote, EmptyCache), JUndef)>>

\* cache.get(key) and, on a hit, the return of what was cached.
Conc_cacheGet ==
  \E p \in DOMAIN procs :
    /\ procs[p].pc = "get"
    /\ LET r == Invoke(procs[p].fn, procs[p].ticker, api, cache, now, tz)
       IN  procs' = IF r.requests = <<>>
                      THEN [procs EXCEPT ![p].pc = "done", ![p].result = r.result]
                      ELSE [procs EXCEPT ![p].pc = "fetch"]
    /\ UNCHANGED <<cache, cache0, api>>
    /\ UNCHANGED <<now, tz, ticks, calls, call, populated, driverVars>>

\* The resolver is run: its result, and the entry to put, are those of the
\* function on a cache without entries.  GET_NEAREST_OPTION_DATE returns.
Conc_fetch ==
  \E p \in DOMAIN procs :
    /\ procs[p].pc = "fetch"
    /\ LET r == Invoke(procs[p].fn, procs[p].ticker, api, EmptyCache, now, tz)
       IN  procs' = IF procs[p].fn = "GET_NEAREST_OPTION_DATE"
                      THEN [procs EXCEPT ![p].pc = "done", ![p].fetched = r,
                                         ![p].result = r.result]
                      ELSE [procs EXCEPT ![p].pc = "put", ![p].fetched = r]
    /\ UNCHANGED <<cache, cache0, api>>
    /\ UNCHANGED <<now, tz, ticks, calls, call, populated, driverVars>>

\* cache.put(key, ...) of the entry the function puts, and return result.
Conc_cachePut ==
  \E p \in DOMAIN procs :
    /\ procs[p].pc = "put"
    /\ cache' = [k \in CacheKeys |->
                   IF procs[p].fetched.cache[k].present
                     THEN procs[p].fetched.cache[k] ELSE cache[k]]
    /\ procs' = [procs EXCEPT ![p].pc = "done",
                              ![p].result = procs[p].fetched.result]
    /\ UNCHANGED <<cache0, api>>
    /\ UNCHANGED <<now, tz, ticks, calls, call, populated, driverVars>>

NextConcurrent ==
  \/ Conc_cacheGet
  \/ Conc_fetch
  \/ Conc_cachePut

SpecConcurrent == InitConcurrent /\ [][NextConcurrent]_vars

---------------------------------------------------------------------------
(* Properties of concurrent invocations *)

\* What invocation p returns when it runs alone on the initial cache.
Alone(p) ==
  Invoke(procs[p].fn, procs[p].ticker, api, cache0, now, tz).result

\* The key an invocation uses, if it uses the cache.
KeysOf(p) ==
  IF procs[p].fn = "GET_NEAREST_OPTION_DATE" THEN {}
  ELSE {StatedKey(procs[p].fn, procs[p].ticker)}

\* C15: whatever the order of the steps of two concurrent invocations for
\* different tickers, each returns what it returns when it runs alone
\* against the same API state and the same initial cache.
C15_SameAsAlone ==
  \A p \in DOMAIN procs :
    procs[p].pc = "done" => procs[p].result = Alone(p)

\* Invocations whose keys differ return what they return alone.
C15_DistinctKeysIndependent ==
  (\A p, q \in DOMAIN procs : p # q => KeysOf(p) \cap KeysOf(q) = {})
    => C15_SameAsAlone

\* Both invocations are over, the tickers differ, and one of them returned
\* something else than it returns alone.
C15_Interference ==
  /\ Len(procs) = 2
  /\ procs[1].ticker # procs[2].ticker
  /\ \A p \in DOMAIN procs : procs[p].pc = "done"
  /\ \E p \in DOMAIN procs : procs[p].result # Alone(p)

====
